---- MODULE Spec2Model ----
(***************************************************************************)
(* Verification model of the Mytrip tourism site: the bookmark feature     *)
(* (database table, browser localStorage, useBookmark hook, sync-on-login, *)
(* bulk delete), the bookmarks page fan-out, the tourism API proxy, and    *)
(* the search box of the list page.                                        *)
(***************************************************************************)
EXTENDS Integers, Sequences, FiniteSets, TLC

(***************************************************************************)
(* Bookmark feature: one browser profile (shared localStorage and Clerk    *)
(* session) with a detail page whose button uses useBookmark and the       *)
(* bookmarks page in a second tab; both work against the bookmarks table   *)
(* of one user.                                                            *)
(***************************************************************************)
VARIABLES
  db,        \* bookmarks table: number of rows per content_id for the user
  local,     \* localStorage["bookmarks"]: sequence of content_ids
  auth,      \* Clerk session of the browser: "out" | "in"
  hk,        \* per hook: React state isBookmarked, isLoading, error
  nchk,      \* per hook: checkBookmarkStatus calls awaiting the database
  tg,        \* per hook: the toggleBookmark call in flight
  sy,        \* per hook: the syncLocalStorage call in flight
  toast,     \* "login" after BookmarkButton asked an anonymous user to log in
  bl,        \* BookmarkList component of the bookmarks page
  place,     \* per hook: the contentId of the detail page it is mounted on
  pg,        \* bookmarks page: the fan-out of tour-detail fetches and its view
  px,        \* API proxy route: the request being served, its response and log
  sr,        \* list page: the search box, the URL and the requests sent
  lp,        \* list page: the URL parameters and what Home rendered from them
  mp,        \* detail page: the DetailMap component
  ft,        \* data-fetch helpers: the last call and its result
  st,        \* list page: the last call of sortTours
  bb,        \* detail page: the two bookmark buttons of one place
  tb,        \* detail page: one bookmark button and its calls in flight
  bd,        \* bookmarks page: the list and its bulk delete
  sh,        \* list page: the header of the search results
  su         \* api/sync-user: the users table and the requests being handled

bmVars == <<db, local, auth, hk, nchk, tg, sy, toast, bl, place>>

vars == <<db, local, auth, hk, nchk, tg, sy, toast, bl, place, pg, px, sr, lp, mp, ft, st, bb, tb, bd, sh, su>>

Contents == {"c1", "c2"}

\* The mounted hook instances.
Hooks == {"h1"}

contentId(h) == place[h]

Range(s) == {s[i] : i \in 1..Len(s)}

RECURSIVE Filter(_, _)
Filter(s, keep) ==
  IF s = <<>> THEN <<>>
  ELSE IF Head(s) \in keep THEN <<Head(s)>> \o Filter(Tail(s), keep)
  ELSE Filter(Tail(s), keep)

NoDup(s) == \A i, j \in 1..Len(s) : s[i] = s[j] => i = j

(***************************************************************************)
(* bookmark-api-client.ts against the bookmarks table                      *)
(***************************************************************************)

\* CONSTRAINT unique_user_bookmark UNIQUE(user_id, content_id): an insert is
\* admitted only if no row of the pair exists.
unique_user_bookmark_dropped(d, c) == TRUE

unique_user_bookmark(d, c) == d[c] = 0

\* checkBookmark: select ... maybeSingle(); an error (also: more than one
\* row) is swallowed and reported as "not bookmarked".
checkBookmark(d, c, ok) == ok /\ d[c] = 1

\* addBookmark: insert; "dup" is error code 23505.
addBookmark(d, c, ok) ==
  IF ~ok THEN [db |-> d, res |-> "err"]
  ELSE IF ~unique_user_bookmark(d, c) THEN [db |-> d, res |-> "dup"]
  ELSE [db |-> [d EXCEPT ![c] = @ + 1], res |-> "ok"]

removeBookmark_kept(d, c, ok) ==
  IF ~ok THEN [db |-> d, res |-> "err"] ELSE [db |-> d, res |-> "ok"]

\* removeBookmark: delete ... eq(user_id).eq(content_id).
removeBookmark(d, c, ok) ==
  IF ~ok THEN [db |-> d, res |-> "err"]
  ELSE [db |-> [d EXCEPT ![c] = 0], res |-> "ok"]

(***************************************************************************)
(* use-bookmark.ts: localStorage helpers                                   *)
(***************************************************************************)
isLocalStorageBookmarked(l, c) == c \in Range(l)

saveLocalStorageBookmark(l, c) ==
  IF c \in Range(l) THEN l ELSE Append(l, c)

removeLocalStorageBookmark(l, c) == Filter(l, Contents \ {c})

clearLocalStorageBookmarks == <<>>

\* startEx records whether the row existed when the toggle was triggered.
IdleTg == [pc |-> "idle", checked |-> FALSE, res |-> "none", startEx |-> FALSE]

IdleSy == [pc |-> "idle", rem |-> <<>>, synced |-> FALSE, clean |-> TRUE]

IdleBl == [deleting |-> FALSE, pending |-> {}]

\* State after the components mounted in a signed-out browser: the initial
\* checkBookmarkStatus of an anonymous user is synchronous.
BmInit ==
  /\ db = [c \in Contents |-> 0]
  /\ local = <<>>
  /\ auth = "out"
  /\ hk = [h \in Hooks |-> [isBookmarked |-> FALSE, isLoading |-> FALSE, error |-> FALSE]]
  /\ nchk = [h \in Hooks |-> 0]
  /\ tg = [h \in Hooks |-> IdleTg]
  /\ sy = [h \in Hooks |-> IdleSy]
  /\ toast = "none"
  /\ bl = IdleBl
  /\ place = [h \in Hooks |-> "c1"]

(***************************************************************************)
(* use-bookmark.ts: checkBookmarkStatus                                    *)
(***************************************************************************)

\* The synchronous part of checkBookmarkStatus as run by the mount/auth
\* effect: an anonymous user is answered from localStorage at once, a
\* signed-in user starts waiting for the database with isLoading set.
checkBookmarkStatus_begin(h, signedIn) ==
  IF signedIn
  THEN /\ hk' = [hk EXCEPT ![h].isLoading = TRUE, ![h].error = FALSE]
       /\ nchk' = [nchk EXCEPT ![h] = @ + 1]
  ELSE /\ hk' = [hk EXCEPT ![h] = [isBookmarked |-> isLocalStorageBookmarked(local, contentId(h)),
                                   isLoading |-> FALSE, error |-> FALSE]]
       /\ UNCHANGED nchk

\* The database answer of a signed-in checkBookmarkStatus arrives:
\* getUserIdByClerkId found no row (fallback to localStorage), or
\* checkBookmark answered (an error reads as "not bookmarked").
checkBookmarkStatus(h) ==
  /\ nchk[h] > 0
  /\ \E userFound \in BOOLEAN, ok \in BOOLEAN :
       LET b == IF userFound THEN checkBookmark(db, contentId(h), ok)
                ELSE isLocalStorageBookmarked(local, contentId(h))
       IN hk' = [hk EXCEPT ![h].isBookmarked = b, ![h].isLoading = FALSE]
  /\ nchk' = [nchk EXCEPT ![h] = @ - 1]
  /\ UNCHANGED <<db, local, auth, tg, sy, toast, bl, place, pg, px, sr, lp, mp, ft, st, bb, tb, bd, sh, su>>

(***************************************************************************)
(* Clerk session changes re-run the effects of every mounted hook          *)
(***************************************************************************)
SignIn ==
  /\ auth = "out"
  /\ \A h \in Hooks : nchk[h] = 0 /\ sy[h].pc = "idle"
  /\ auth' = "in"
  /\ hk' = [h \in Hooks |-> [hk[h] EXCEPT !.isLoading = TRUE, !.error = FALSE]]
  /\ nchk' = [h \in Hooks |-> 1]
     \* syncLocalStorage: returns at once when localStorage is empty
  /\ sy' = [h \in Hooks |->
              IF local = <<>> THEN IdleSy
              ELSE [pc |-> "start", rem |-> local, synced |-> FALSE, clean |-> TRUE]]
  /\ UNCHANGED <<db, local, tg, toast, bl, place, pg, px, sr, lp, mp, ft, st, bb, tb, bd, sh, su>>

SignOut ==
  /\ auth = "in"
  /\ auth' = "out"
  /\ hk' = [h \in Hooks |-> [isBookmarked |-> isLocalStorageBookmarked(local, contentId(h)),
                             isLoading |-> FALSE, error |-> FALSE]]
  /\ UNCHANGED <<db, local, nchk, tg, sy, toast, bl, place, pg, px, sr, lp, mp, ft, st, bb, tb, bd, sh, su>>

(***************************************************************************)
(* use-bookmark.ts: toggleBookmark                                         *)
(***************************************************************************)
toggleBookmark(h) ==
  /\ ~hk[h].isLoading
  /\ tg[h].pc = "idle"
  /\ IF auth = "out"
     THEN \* anonymous user: localStorage, synchronously
          LET c == contentId(h)
              cur == isLocalStorageBookmarked(local, c)
          IN /\ local' = IF cur THEN removeLocalStorageBookmark(local, c)
                         ELSE saveLocalStorageBookmark(local, c)
             /\ hk' = [hk EXCEPT ![h] = [isBookmarked |-> ~cur, isLoading |-> FALSE,
                                         error |-> FALSE]]
             /\ UNCHANGED tg
     ELSE /\ hk' = [hk EXCEPT ![h].isLoading = TRUE, ![h].error = FALSE]
          /\ tg' = [tg EXCEPT ![h] = [pc |-> "check", checked |-> FALSE, res |-> "none",
                                      startEx |-> db[contentId(h)] > 0]]
          /\ UNCHANGED local
  /\ UNCHANGED <<db, auth, nchk, sy, toast, bl, place, pg, px, sr, lp, mp, ft, st, bb, tb, bd, sh, su>>

\* bookmark-button.tsx: the click handler of the button.  An anonymous
\* user is asked to log in and the hook is not called.
handleToggle(h) ==
  IF auth = "out"
  THEN /\ ~hk[h].isLoading
       /\ toast' = "login"
       /\ UNCHANGED <<db, local, auth, hk, nchk, tg, sy, bl, place, pg, px, sr, lp, mp, ft, st, bb, tb, bd, sh, su>>
  ELSE toggleBookmark(h)

\* A component using the hook as its documentation shows:
\* <button onClick={toggleBookmark} disabled={isLoading}>.
MyComponent_onClick(h) == toggleBookmark(h)

\* End of a signed-in toggle: catch/finally of toggleBookmark.
ToggleEnd(h, err, setTo) ==
  /\ hk' = [hk EXCEPT ![h] = [isBookmarked |-> IF setTo = "keep" THEN @.isBookmarked
                                               ELSE setTo = "on",
                              isLoading |-> FALSE,
                              error |-> err]]
  /\ tg' = [tg EXCEPT ![h] = IdleTg]

\* getUserIdByClerkId, then checkBookmark.
toggleBookmark_check(h) ==
  /\ tg[h].pc = "check"
  /\ \/ \* no users row (or the lookup failed): throw
        /\ ToggleEnd(h, TRUE, "keep")
     \/ \E ok \in BOOLEAN :
          /\ tg' = [tg EXCEPT ![h].pc = "write",
                              ![h].checked = checkBookmark(db, contentId(h), ok)]
          /\ UNCHANGED hk
  /\ UNCHANGED <<db, local, auth, nchk, sy, toast, bl, place, pg, px, sr, lp, mp, ft, st, bb, tb, bd, sh, su>>

\* removeBookmark or addBookmark reaches the database.
toggleBookmark_write(h) ==
  /\ tg[h].pc = "write"
  /\ \E ok \in BOOLEAN :
       LET r == IF tg[h].checked THEN removeBookmark(db, contentId(h), ok)
                ELSE addBookmark(db, contentId(h), ok)
       IN /\ db' = r.db
          /\ tg' = [tg EXCEPT ![h].pc = "fin", ![h].res = r.res]
  /\ UNCHANGED <<local, auth, hk, nchk, sy, toast, bl, place, pg, px, sr, lp, mp, ft, st, bb, tb, bd, sh, su>>

\* The answer of the write arrives in the browser: a failed write throws,
\* "already bookmarked" counts as bookmarked.
toggleBookmark_fin(h) ==
  /\ tg[h].pc = "fin"
  /\ IF tg[h].res = "err" THEN ToggleEnd(h, TRUE, "keep")
     ELSE IF tg[h].checked THEN ToggleEnd(h, FALSE, "off")
     ELSE ToggleEnd(h, FALSE, "on")
  /\ UNCHANGED <<db, local, auth, nchk, sy, toast, bl, place, pg, px, sr, lp, mp, ft, st, bb, tb, bd, sh, su>>

(***************************************************************************)
(* use-bookmark.ts: syncLocalStorage, bookmark-api-client.ts:              *)
(* syncLocalStorageToDB                                                    *)
(***************************************************************************)

\* getUserIdByClerkId of syncLocalStorage: without a users row the sync is
\* skipped.
syncLocalStorage_user(h) ==
  /\ sy[h].pc = "start"
  /\ \/ sy' = [sy EXCEPT ![h] = IdleSy]
     \/ sy' = [sy EXCEPT ![h].pc = "check"]
  /\ UNCHANGED <<db, local, auth, hk, nchk, tg, toast, bl, place, pg, px, sr, lp, mp, ft, st, bb, tb, bd, sh, su>>

\* Loop head of syncLocalStorageToDB: checkBookmark of the next local
\* bookmark; an existing one is skipped without counting as synced.
syncLocalStorageToDB_check(h) ==
  /\ sy[h].pc = "check"
  /\ sy[h].rem # <<>>
  /\ \E ok \in BOOLEAN :
       sy' = [sy EXCEPT ![h] =
                IF checkBookmark(db, Head(sy[h].rem), ok)
                THEN [@ EXCEPT !.rem = Tail(@)]
                ELSE [@ EXCEPT !.pc = "add", !.clean = @ /\ ok]]
  /\ UNCHANGED <<db, local, auth, hk, nchk, tg, toast, bl, place, pg, px, sr, lp, mp, ft, st, bb, tb, bd, sh, su>>

\* addBookmark of the loop: synced++ or failed++.
syncLocalStorageToDB_add(h) ==
  /\ sy[h].pc = "add"
  /\ \E ok \in BOOLEAN :
       LET r == addBookmark(db, Head(sy[h].rem), ok)
       IN /\ db' = r.db
          /\ sy' = [sy EXCEPT ![h] =
                      [@ EXCEPT !.pc = "check", !.rem = Tail(@),
                                !.synced = @ \/ r.res = "ok",
                                !.clean = @ /\ r.res = "ok"]]
  /\ UNCHANGED <<local, auth, hk, nchk, tg, toast, bl, place, pg, px, sr, lp, mp, ft, st, bb, tb, bd, sh, su>>

\* The loop is over: result.success is always true, so localStorage is
\* cleared and the status re-checked exactly when synced > 0.
SyncClears(s) == s.synced

syncLocalStorage_result(h) ==
  /\ sy[h].pc = "check"
  /\ sy[h].rem = <<>>
  /\ IF SyncClears(sy[h])
     THEN /\ local' = clearLocalStorageBookmarks
          /\ checkBookmarkStatus_begin(h, TRUE)
     ELSE UNCHANGED <<local, hk, nchk>>
  /\ sy' = [sy EXCEPT ![h] = IdleSy]
  /\ UNCHANGED <<db, auth, tg, toast, bl, place, pg, px, sr, lp, mp, ft, st, bb, tb, bd, sh, su>>

(***************************************************************************)
(* bookmark-list.tsx: the list of the bookmarks page and its bulk delete    *)
(***************************************************************************)

\* What a freshly loaded bookmarks page lists: the rows getBookmarks read
\* on the server for a signed-in user, the localStorage list otherwise.
BookmarksPage_bookmarks ==
  IF auth = "in" THEN {c \in Contents : db[c] > 0} ELSE Range(local)

\* The user selects the bookmarks S on a freshly loaded page and confirms
\* the delete dialog.
handleBulkDelete(S) ==
  /\ S # {} /\ S \subseteq BookmarksPage_bookmarks
  /\ ~bl.deleting /\ bl.pending = {}
  /\ IF auth = "out"
     THEN /\ local' = Filter(local, Contents \ S)
          /\ UNCHANGED bl
     ELSE /\ \/ \* getUserIdByClerkId found nothing: throw, toast.error
                UNCHANGED bl
             \/ bl' = [deleting |-> TRUE, pending |-> S]
          /\ UNCHANGED local
  /\ UNCHANGED <<db, auth, hk, nchk, tg, sy, toast, place, pg, px, sr, lp, mp, ft, st, bb, tb, bd, sh, su>>

\* One removeBookmark of Promise.all(deletePromises) reaches the database.
\* The first failure rejects Promise.all at once and ends isDeleting (the
\* other deletes go on); so does the last success.
handleBulkDelete_remove(c) ==
  /\ c \in bl.pending
  /\ \E ok \in BOOLEAN :
       LET r == removeBookmark(db, c, ok)
           left == bl.pending \ {c}
       IN /\ db' = r.db
          /\ bl' = [deleting |-> bl.deleting /\ r.res = "ok" /\ left # {},
                    pending |-> left]
  /\ UNCHANGED <<local, auth, hk, nchk, tg, sy, toast, place, pg, px, sr, lp, mp, ft, st, bb, tb, bd, sh, su>>

\* The user opens the detail page of another place: the hook is mounted
\* anew with that contentId and checks its status.
DetailPage_open(h, c) ==
  /\ c # place[h]
  /\ nchk[h] = 0 /\ tg[h].pc = "idle" /\ sy[h].pc = "idle"
  /\ place' = [place EXCEPT ![h] = c]
  /\ IF auth = "in"
     THEN /\ hk' = [hk EXCEPT ![h] = [isBookmarked |-> FALSE, isLoading |-> TRUE,
                                      error |-> FALSE]]
          /\ nchk' = [nchk EXCEPT ![h] = 1]
     ELSE /\ hk' = [hk EXCEPT ![h] = [isBookmarked |-> isLocalStorageBookmarked(local, c),
                                      isLoading |-> FALSE, error |-> FALSE]]
          /\ UNCHANGED nchk
  /\ UNCHANGED <<db, local, auth, tg, sy, toast, bl, pg, px, sr, lp, mp, ft, st, bb, tb, bd, sh, su>>

\* Another browser or device of the same user completes a toggle, a sync
\* step or a bulk delete of its own: whatever it runs, it reaches the table
\* through addBookmark or removeBookmark only.
OtherClient(c) ==
  /\ \E ok \in BOOLEAN :
       \/ db' = addBookmark(db, c, ok).db
       \/ db' = removeBookmark(db, c, ok).db
  /\ UNCHANGED <<local, auth, hk, nchk, tg, sy, toast, bl, place, pg, px, sr, lp, mp, ft, st, bb, tb, bd, sh, su>>

BmNext ==
  \/ SignIn
  \/ SignOut
  \/ \E h \in Hooks : checkBookmarkStatus(h)
  \/ \E h \in Hooks : handleToggle(h)
  \/ \E h \in Hooks : MyComponent_onClick(h)
  \/ \E h \in Hooks : toggleBookmark_check(h)
  \/ \E h \in Hooks : toggleBookmark_write(h)
  \/ \E h \in Hooks : toggleBookmark_fin(h)
  \/ \E h \in Hooks : syncLocalStorage_user(h)
  \/ \E h \in Hooks : syncLocalStorageToDB_check(h)
  \/ \E h \in Hooks : syncLocalStorageToDB_add(h)
  \/ \E h \in Hooks : syncLocalStorage_result(h)
  \/ \E S \in SUBSET Contents : handleBulkDelete(S)
  \/ \E c \in Contents : handleBulkDelete_remove(c)
  \/ \E h \in Hooks, c \in Contents : DetailPage_open(h, c)
  \/ \E c \in Contents : OtherClient(c)

(***************************************************************************)
(* Properties of the bookmark feature                                      *)
(***************************************************************************)

\* C1: in every reachable state the bookmarks table holds at most one row
\* per (user_id, content_id) and the localStorage list holds no content_id
\* twice, whatever toggles, syncs, bulk deletes and other clients did.
C1_OneBookmarkPerPair ==
  /\ \A c \in Contents : db[c] <= 1
  /\ NoDup(local)

\* An insert of a toggle was rejected by the constraint because a racing
\* writer had inserted the row first, while localStorage holds bookmarks.
C1_Witness ==
  \E h \in Hooks : tg[h].pc = "fin" /\ tg[h].res = "dup" /\ Len(local) = 2

\* C2 as stated: a press of the bookmark button by an anonymous user adds
\* the place to localStorage, or removes it if it was there, and writes
\* nothing to the database.
C2_AnonymousPressTogglesLocal ==
  [][\A h \in Hooks :
       (auth = "out" /\ toast # "login" /\ handleToggle(h)) =>
          /\ db' = db
          /\ local' = IF isLocalStorageBookmarked(local, contentId(h))
                      THEN removeLocalStorageBookmark(local, contentId(h))
                      ELSE saveLocalStorageBookmark(local, contentId(h))]_bmVars

\* C3 as stated: a sync-on-login all of whose database operations
\* succeeded finishes with localStorage emptied and every content_id of
\* the list bookmarked in the database.
C3_SyncEmptiesLocal ==
  [][\A h \in Hooks :
       (sy[h].clean /\ syncLocalStorage_result(h)) =>
          /\ local' = <<>>
          /\ \A c \in Range(local) : db'[c] > 0]_bmVars

\* C4 as stated: after the write of a signed-in toggle that did not fail,
\* the bookmark exists iff it did not exist when the toggle was triggered.
C4_FlipsSinceStart ==
  [][\A h \in Hooks :
       (toggleBookmark_write(h) /\ tg'[h].res # "err") =>
          (db'[contentId(h)] > 0) = ~tg[h].startEx]_bmVars

\* C4, amended: after the write of a signed-in toggle that did not fail,
\* the bookmark exists iff the toggle's own checkBookmark had answered "not
\* bookmarked"; and every step leaves each pair's rows alone, inserts one
\* row or deletes the rows: nothing is updated in place.
C4_FlipsSinceCheck ==
  [][/\ \A h \in Hooks :
          (toggleBookmark_write(h) /\ tg'[h].res # "err") =>
             (db'[contentId(h)] > 0) = ~tg[h].checked
     /\ \A c \in Contents : db'[c] \in {db[c], db[c] + 1, 0}]_bmVars

\* The write of a toggle succeeded although the row's existence had
\* changed between the trigger and the toggle's check.
C4_Witness ==
  \E h \in Hooks :
    tg[h].pc = "fin" /\ tg[h].res = "ok" /\ tg[h].startEx # tg[h].checked

(***************************************************************************)
(* The bookmarks page: app/bookmarks/page.tsx fans out one tour-detail      *)
(* fetch per bookmark and hands the settled entries to BookmarkList         *)
(***************************************************************************)
PgIds == {"c1", "c2", "c3"}

\* created_at, title and addr1 of the bookmarked places, as ranks.
CreatedAt == [c \in PgIds |-> IF c = "c1" THEN 3 ELSE IF c = "c2" THEN 2 ELSE 1]
TitleRank == [c \in PgIds |-> IF c = "c1" THEN 2 ELSE IF c = "c2" THEN 3 ELSE 1]
AddrRank == [c \in PgIds |-> IF c = "c1" THEN 1 ELSE IF c = "c2" THEN 3 ELSE 2]

\* The bookmark lists getBookmarks can return: distinct content_ids,
\* newest first.
PgLists ==
  {l \in UNION {[1..n -> PgIds] : n \in 0..Cardinality(PgIds)} :
     \A i, j \in 1..Len(l) : i < j => CreatedAt[l[i]] > CreatedAt[l[j]]}

SortOptions == {"latest", "name", "region", "other"}

\* What the proxy call of one fetch ends with.
Upstream == {"ok", "http_error", "error_code", "no_item", "exception"}

\* fetchTourDetail: the tour on success; null for a non-OK response, an
\* error result code, a missing item, and from its catch-all.
fetchTourDetail(outcome, c) == IF outcome = "ok" THEN c ELSE "null"

\* One element of tourPromises: try { tour = await fetchTourDetail } catch.
tourPromise(b, r) ==
  IF r = "throw"
  THEN [bookmark |-> b, tour |-> "null", error |-> "tour fetch failed"]
  ELSE [bookmark |-> b, tour |-> r, error |-> "none"]

\* results.map over Promise.allSettled(tourPromises): every promise
\* fulfils, because tourPromise catches.
bookmarksWithTour(bs, fetched) ==
  [i \in 1..Len(bs) |-> tourPromise(bs[i], fetchTourDetail(fetched[i], bs[i]))]

\* Array.prototype.sort (stable) by a numeric key, ascending.
RECURSIVE InsertBy(_, _, _)
InsertBy(x, l, key) ==
  IF l = <<>> THEN <<x>>
  ELSE IF key[x.bookmark] < key[Head(l).bookmark] THEN <<x>> \o l
  ELSE <<Head(l)>> \o InsertBy(x, Tail(l), key)

RECURSIVE SortBy(_, _)
SortBy(l, key) ==
  IF l = <<>> THEN <<>>
  ELSE InsertBy(l[Len(l)], SortBy(SubSeq(l, 1, Len(l) - 1), key), key)

RECURSIVE WithTour(_)
WithTour(l) ==
  IF l = <<>> THEN <<>>
  ELSE IF Head(l).tour # "null" THEN <<Head(l)>> \o WithTour(Tail(l))
  ELSE WithTour(Tail(l))

\* sortedBookmarks: entries without a tour are dropped, then sorted.
sortedBookmarks(l, sort) ==
  LET filtered == WithTour(l)
  IN CASE sort = "latest" -> SortBy(filtered, [c \in PgIds |-> 0 - CreatedAt[c]])
       [] sort = "name"   -> SortBy(filtered, TitleRank)
       [] sort = "region" -> SortBy(filtered, AddrRank)
       [] OTHER           -> filtered

\* What BookmarkList shows for its bookmarks state.
BookmarkList(l, sort) ==
  IF l = <<>> THEN [kind |-> "empty", cards |-> <<>>]
  ELSE IF sortedBookmarks(l, sort) = <<>> THEN [kind |-> "unavailable", cards |-> <<>>]
  ELSE [kind |-> "cards",
        cards |-> [i \in 1..Len(sortedBookmarks(l, sort)) |->
                     sortedBookmarks(l, sort)[i].bookmark]]

PgRequest(bs, sort) ==
  [stage |-> "fetching", bookmarks |-> bs, sort |-> sort,
   fetched |-> [i \in 1..Len(bs) |-> "pending"],
   list |-> <<>>, view |-> [kind |-> "loading", cards |-> <<>>]]

PgIdle == pg = PgRequest(<<>>, "latest")

PgInit == \E bs \in PgLists, sort \in SortOptions : pg = PgRequest(bs, sort)

\* One fetchTourDetail call returns; the calls finish in any order.
fetchTourDetail_return(i) ==
  /\ pg.stage = "fetching"
  /\ i \in 1..Len(pg.bookmarks)
  /\ pg.fetched[i] = "pending"
  /\ \E o \in Upstream : pg' = [pg EXCEPT !.fetched[i] = o]
  /\ UNCHANGED <<bmVars, px, sr, lp, mp, ft, st, bb, tb, bd, sh, su>>

\* await Promise.allSettled(tourPromises) and the mapping of its results.
BookmarksPage ==
  /\ pg.stage = "fetching"
  /\ \A i \in 1..Len(pg.bookmarks) : pg.fetched[i] # "pending"
  /\ pg' = [pg EXCEPT !.stage = "settled",
                      !.list = bookmarksWithTour(pg.bookmarks, pg.fetched)]
  /\ UNCHANGED <<bmVars, px, sr, lp, mp, ft, st, bb, tb, bd, sh, su>>

BookmarkList_render ==
  /\ pg.stage = "settled"
  /\ pg' = [pg EXCEPT !.stage = "rendered", !.view = BookmarkList(pg.list, pg.sort)]
  /\ UNCHANGED <<bmVars, px, sr, lp, mp, ft, st, bb, tb, bd, sh, su>>

\* The sort select pushes ?sort=...: the server component renders the
\* page anew.
handleSortChange(sort) ==
  /\ pg.stage = "rendered"
  /\ sort # pg.sort
  /\ pg' = PgRequest(pg.bookmarks, sort)
  /\ UNCHANGED <<bmVars, px, sr, lp, mp, ft, st, bb, tb, bd, sh, su>>

PgNext ==
  \/ \E i \in 1..Cardinality(PgIds) : fetchTourDetail_return(i)
  \/ BookmarksPage
  \/ BookmarkList_render
  \/ \E sort \in SortOptions \ {"other"} : handleSortChange(sort)

\* C5 as stated: the settled list has one entry per bookmark in the
\* original order; a bookmark whose fetch succeeded carries its tour and
\* is rendered; a bookmark whose fetch failed carries no tour and an error.
C5_FailuresReportedIndividually ==
  pg.stage \in {"settled", "rendered"} =>
    /\ Len(pg.list) = Len(pg.bookmarks)
    /\ \A i \in 1..Len(pg.bookmarks) :
         /\ pg.list[i].bookmark = pg.bookmarks[i]
         /\ pg.fetched[i] = "ok" =>
              /\ pg.list[i].tour = pg.bookmarks[i]
              /\ pg.stage = "rendered" =>
                   \E k \in 1..Len(pg.view.cards) : pg.view.cards[k] = pg.bookmarks[i]
         /\ pg.fetched[i] # "ok" =>
              pg.list[i].tour = "null" /\ pg.list[i].error # "none"

(***************************************************************************)
(* The tourism API proxy: GET of app/api/tour/route.ts.  The sources hold   *)
(* two versions of the handler; which one is deployed is fixed at the        *)
(* start.  Texts (URLs, log lines, response fields) are sequences of        *)
(* tokens; the characters of the secret key are tokens of their own.        *)
(***************************************************************************)
Routes == {"route.ts", "part_003"}

MaxKeyLen == 2

PreviewLen == 10

DetailsLen == 500

DetailsLenAuth == 1000

KeyAlphabet == {"x", "+"}

\* Values of TOUR_API_KEY: unset, or a key, possibly followed by a blank.
EnvKeys ==
  LET keys == UNION {[1..n -> KeyAlphabet] : n \in 1..MaxKeyLen}
  IN {<<>>} \cup keys \cup {k \o <<" ">> : k \in keys}

RECURSIVE trim(_)
trim(t) ==
  IF t # <<>> /\ Head(t) = " " THEN trim(Tail(t))
  ELSE IF t # <<>> /\ t[Len(t)] = " " THEN trim(SubSeq(t, 1, Len(t) - 1))
  ELSE t

\* getTourApiKey: the trimmed key; throws when the variable is unset.
getTourApiKey(env) == trim(env)

substring(t, n) == SubSeq(t, 1, IF n < Len(t) THEN n ELSE Len(t))

\* URLSearchParams.toString() on one character of a value.
urlencode(ch) == IF ch = "+" THEN "%2B" ELSE IF ch = " " THEN "+" ELSE ch

URLSearchParams_toString(t) == [i \in 1..Len(t) |-> urlencode(t[i])]

IsAt(t, pat, i) ==
  /\ i + Len(pat) - 1 <= Len(t)
  /\ \A j \in 1..Len(pat) : t[i + j - 1] = pat[j]

\* String.prototype.replace(pattern, replacement) with a string pattern:
\* the first occurrence only.
replace(t, pat, rep) ==
  IF \E i \in 1..Len(t) : IsAt(t, pat, i)
  THEN LET i == CHOOSE k \in 1..Len(t) :
                  IsAt(t, pat, k) /\ \A m \in 1..(k - 1) : ~IsAt(t, pat, m)
       IN SubSeq(t, 1, i - 1) \o rep \o SubSeq(t, i + Len(pat), Len(t))
  ELSE t

Endpoints == {"areaBasedList", "searchKeyword", "detailCommon"}

\* Query parameters a request can carry besides the endpoint.
ParamNames == {"areaCode", "contentTypeId", "keyword", "contentId"}

Requests ==
  [endpoint : Endpoints \cup {"bogus"}, params : SUBSET ParamNames]

\* ENDPOINT_CONFIG[endpoint].requiredParams without the common parameters,
\* in their order.
requiredParams(route, endpoint) ==
  CASE endpoint = "areaBasedList" ->
         IF route = "route.ts" THEN <<"areaCode", "contentTypeId">> ELSE <<"areaCode">>
    [] endpoint = "searchKeyword" -> <<"keyword">>
    [] OTHER -> <<"contentId">>

\* The optional parameters the handler forwards (numOfRows, pageNo and
\* sigunguCode are not part of Requests).
optionalParams(route, endpoint) ==
  IF route = "part_003" /\ endpoint = "areaBasedList" THEN {"contentTypeId"} ELSE {}

RECURSIVE FirstMissing(_, _)
FirstMissing(req, have) ==
  IF req = <<>> THEN "none"
  ELSE IF Head(req) \notin have THEN Head(req)
  ELSE FirstMissing(Tail(req), have)

\* apiUrl: base, path and the encoded query string.
apiUrl(endpoint, key) ==
  <<"https://apis.data.go.kr/B551011/KorService2", endpoint, "?serviceKey=">>
    \o URLSearchParams_toString(key) \o <<"&MobileOS=ETC&MobileApp=MyTrip&_type=json">>

PxStart(route, env) ==
  [route |-> route, env |-> env, stage |-> "idle",
   req |-> [endpoint |-> "bogus", params |-> {}], forwarded |-> {},
   log |-> <<>>, status |-> 0, error |-> "none", body |-> <<>>]

PxIdle == px = PxStart("route.ts", <<>>)

PxInit == \E route \in Routes, env \in EnvKeys : px = PxStart(route, env)

\* The log lines of the "Environment Check" group that render the key.
EnvironmentCheck(route, env) ==
  IF route = "part_003"
  THEN << <<"API Key preview:">>
            \o (IF env = <<>> THEN <<"undefined">> ELSE substring(env, PreviewLen))
            \o <<"...">> >>
  ELSE <<>>

Respond(base, log, status, error, body) ==
  [base EXCEPT !.stage = "done", !.log = log, !.status = status,
               !.error = error, !.body = body]

\* GET up to the point where it either answers or awaits the upstream
\* fetch.
GET(r) ==
  /\ px.stage \in {"idle", "done"}
  /\ LET base == [px EXCEPT !.req = r, !.forwarded = {}]
         log0 == EnvironmentCheck(px.route, px.env)
         key  == getTourApiKey(px.env)
         miss == FirstMissing(requiredParams(px.route, r.endpoint), r.params)
         url  == apiUrl(r.endpoint, key)
     IN IF r.endpoint \notin Endpoints
        THEN px' = Respond(base, log0, 400, "Invalid endpoint", <<>>)
        ELSE IF px.env = <<>>
        THEN px' = Respond(base, log0 \o << <<"[Tour API] Error:", "TOUR_API_KEY">> >>,
                           500, "Configuration error", << <<"TOUR_API_KEY">> >>)
        ELSE IF miss # "none"
        THEN px' = Respond(base, log0, 400, "Missing required parameter", << <<miss>> >>)
        ELSE px' = [base EXCEPT
                      !.stage = "fetching",
                      !.forwarded = {q \in r.params :
                                       \/ \E i \in 1..Len(requiredParams(px.route, r.endpoint)) :
                                            requiredParams(px.route, r.endpoint)[i] = q
                                       \/ q \in optionalParams(px.route, r.endpoint)},
                      !.status = 0, !.error = "none", !.body = <<>>,
                      !.log = log0 \o << <<"URL (masked):">> \o replace(url, key, <<"***">>),
                                         <<"Params (masked):", "serviceKey", "***">>,
                                         <<"API Key length:", "number">> >>]
  /\ UNCHANGED <<bmVars, pg, sr, lp, mp, ft, st, bb, tb, bd, sh, su>>

UpstreamOutcomes == {"ok", "error_code", "401", "500", "exception"}

\* The upstream fetch ends and GET answers.
GET_upstream(o) ==
  /\ px.stage = "fetching"
  /\ LET key == getTourApiKey(px.env)
         url == apiUrl(px.req.endpoint, key)
         errorText == <<"upstream error text">>
         errlog == px.log
                   \o << <<"API Error:", o>> \o errorText,
                         <<"Request URL (masked):">> \o replace(url, key, <<"***">>),
                         <<"API Key length:", "number">> >>
                   \o (IF px.route = "part_003"
                       THEN << <<"API Key first 10 chars:">> \o substring(key, PreviewLen),
                               <<"Full error response:">> \o errorText >>
                       ELSE <<>>)
     IN CASE o = "exception" ->
               px' = Respond(px, px.log \o << <<"[Tour API] Error:", "fetch failed">> >>,
                             500, "Internal server error", << <<"fetch failed">> >>)
          [] o = "401" ->
               px' = Respond(px, errlog, 401, "Authentication failed",
                             IF px.route = "part_003"
                             THEN << substring(errorText, DetailsLenAuth), <<"number">>,
                                     substring(key, PreviewLen) \o <<"...">> >>
                             ELSE << substring(errorText, DetailsLen) >>)
          [] o = "500" ->
               px' = Respond(px, errlog, 500, "Tour API request failed",
                             << substring(errorText, DetailsLen) >>)
          [] o = "error_code" ->
               px' = Respond(px, px.log \o << <<"API Error Response:", "resultMsg">> >>,
                             400, "Tour API error", << <<"resultMsg">>, <<"resultCode">> >>)
          [] OTHER ->
               px' = Respond(px, px.log \o << <<"Success:", "totalCount", "items">> >>,
                             200, "none", << <<"data">> >>)
  /\ UNCHANGED <<bmVars, pg, sr, lp, mp, ft, st, bb, tb, bd, sh, su>>

PxNext ==
  \/ \E r \in Requests : GET(r)
  \/ \E o \in UpstreamOutcomes : GET_upstream(o)

\* A text shows the key or a part of it: one of its characters, as it is
\* or URL-encoded.
ShowsKey(t, key) ==
  \E i \in 1..Len(t), j \in 1..Len(key) : t[i] \in {key[j], urlencode(key[j])}

\* C6 as stated: no log line and no field of the response body contains
\* the API key or a part of it, for every request and upstream outcome.
C6_KeyNeverShown ==
  /\ \A i \in 1..Len(px.log) : ~ShowsKey(px.log[i], getTourApiKey(px.env))
  /\ \A i \in 1..Len(px.body) : ~ShowsKey(px.body[i], getTourApiKey(px.env))

\* C8 as stated: a list request with an area and without contentTypeId is
\* not refused for a missing parameter, and an upstream success yields the
\* data.
C8_AllTypesAccepted ==
  (/\ px.stage = "done"
   /\ px.env # <<>>
   /\ px.req.endpoint = "areaBasedList"
   /\ "areaCode" \in px.req.params
   /\ "contentTypeId" \notin px.req.params)
  => px.error # "Missing required parameter"

(***************************************************************************)
(* The search box of the list page: components/tour-search.tsx on the       *)
(* client, Home and fetchTourSearch of app/page.tsx on the server.          *)
(* Keywords are sequences of characters.                                    *)
(***************************************************************************)
MaxWordLen == 3

MinKeywordLen == 2

Words == UNION {[1..n -> {"a", " "}] : n \in 0..MaxWordLen}

NoRequest == [endpoint |-> "none", keyword |-> <<>>]

\* fetchTourSearch up to its fetch: the request it sends to the proxy, if
\* any.
fetchTourSearch_unvalidated(keyword) ==
  [endpoint |-> "searchKeyword", keyword |-> trim(keyword)]

fetchTourSearch(keyword) ==
  LET trimmedKeyword == trim(keyword)
  IN IF trimmedKeyword = <<>> \/ Len(trimmedKeyword) < MinKeywordLen
     THEN NoRequest
     ELSE [endpoint |-> "searchKeyword", keyword |-> trimmedKeyword]

\* Home: keyword ? fetchTourSearch(keyword, ...) : fetchTourList(...).
Home(keyword) ==
  IF keyword # <<>> THEN fetchTourSearch(keyword)
  ELSE [endpoint |-> "areaBasedList", keyword |-> <<>>]

NoNav == [active |-> FALSE, to |-> <<>>]

\* The page /?keyword=w freshly loaded: the server rendered Home and
\* TourSearch mounted with its initial state.
SrStart(w) ==
  [url |-> w, inputValue |-> w, isSearching |-> FALSE, isPending |-> FALSE,
   nav |-> NoNav, sent |-> Home(w)]

SrIdle == sr = SrStart(<<>>)

\* The duplicate-request guard at the head of handleSearch.
isDuplicateRequest_off(isSearching) == FALSE

isDuplicateRequest(isSearching) == isSearching

\* handleSearch as created by the render whose isSearching is `closure`:
\* the state of the component after the call.
handleSearch(s, keyword, closure) ==
  LET trimmedKeyword == trim(keyword)
  IN IF isDuplicateRequest(closure) THEN s
     ELSE IF trimmedKeyword = <<>>
     THEN [s EXCEPT !.isPending = TRUE, !.nav = [active |-> TRUE, to |-> <<>>]]
     ELSE IF Len(trimmedKeyword) < MinKeywordLen THEN s
     ELSE IF trimmedKeyword = s.url THEN s
     ELSE [s EXCEPT !.isSearching = TRUE, !.isPending = TRUE,
                    !.nav = [active |-> TRUE, to |-> trimmedKeyword]]

isInputDisabled(s) == s.isSearching \/ s.isPending

isButtonDisabled(s) ==
  \/ s.isSearching
  \/ s.isPending
  \/ Len(trim(s.inputValue)) < MinKeywordLen
  \/ trim(s.inputValue) = s.url

\* onChange of the input.
setInputValue(w) ==
  /\ ~isInputDisabled(sr)
  /\ w # sr.inputValue
  /\ sr' = [sr EXCEPT !.inputValue = w]
  /\ UNCHANGED <<bmVars, pg, px, lp, mp, ft, st, bb, tb, bd, sh, su>>

\* Enter in the input.
handleKeyDown ==
  /\ ~isInputDisabled(sr)
  /\ sr' = handleSearch(sr, sr.inputValue, sr.isSearching)
  /\ UNCHANGED <<bmVars, pg, px, lp, mp, ft, st, bb, tb, bd, sh, su>>

handleSearchClick ==
  /\ ~isButtonDisabled(sr)
  /\ sr' = handleSearch(sr, sr.inputValue, sr.isSearching)
  /\ UNCHANGED <<bmVars, pg, px, lp, mp, ft, st, bb, tb, bd, sh, su>>

\* The reset button (shown while the URL has a keyword): it clears the
\* input and isSearching, then calls the handleSearch of the current
\* render, which still sees the old isSearching.
handleReset ==
  /\ sr.url # <<>>
  /\ sr' = handleSearch([sr EXCEPT !.inputValue = <<>>, !.isSearching = FALSE],
                        <<>>, sr.isSearching)
  /\ UNCHANGED <<bmVars, pg, px, lp, mp, ft, st, bb, tb, bd, sh, su>>

\* The navigation of router.replace completes: the server rendered Home
\* for the new URL; a changed keyword runs the [currentKeyword] effects.
router_replace ==
  /\ sr.nav.active
  /\ sr' = [url |-> sr.nav.to,
            inputValue |-> IF sr.nav.to # sr.url THEN sr.nav.to ELSE sr.inputValue,
            isSearching |-> IF sr.nav.to # sr.url THEN FALSE ELSE sr.isSearching,
            isPending |-> FALSE,
            nav |-> NoNav,
            sent |-> Home(sr.nav.to)]
  /\ UNCHANGED <<bmVars, pg, px, lp, mp, ft, st, bb, tb, bd, sh, su>>

\* What the 30-second safety timer does when it fires.
loadingTimeout_off(s) == s

loadingTimeout(s) == [s EXCEPT !.isSearching = FALSE]

\* The timer armed by the [isSearching] effect fires.
setTimeout_fire ==
  /\ sr.isSearching
  /\ sr' = loadingTimeout(sr)
  /\ UNCHANGED <<bmVars, pg, px, lp, mp, ft, st, bb, tb, bd, sh, su>>

\* The user opens (or reloads) the list page with a keyword parameter.
OpenUrl(w) ==
  /\ sr # SrStart(w)
  /\ sr' = SrStart(w)
  /\ UNCHANGED <<bmVars, pg, px, lp, mp, ft, st, bb, tb, bd, sh, su>>

SrNext ==
  \/ \E w \in Words : setInputValue(w)
  \/ handleKeyDown
  \/ handleSearchClick
  \/ handleReset
  \/ router_replace
  \/ setTimeout_fire
  \/ \E w \in Words : OpenUrl(w)

\* C7: the last request sent to the proxy is never a searchKeyword request
\* whose keyword has a trimmed length below 2, whether the page was opened
\* by URL or reached through the search box.
C7_NoShortKeywordRequest ==
  sr.sent.endpoint = "searchKeyword" => Len(trim(sr.sent.keyword)) >= 2

\* The page was rendered for a keyword shorter than 2 after trimming and
\* Home sent no request.
C7_Witness ==
  /\ sr.url # <<>> /\ Len(trim(sr.url)) < 2
  /\ sr.sent.endpoint = "none"

\* C9: a click, an Enter or a reset that happens while isSearching is true
\* starts no navigation and sends no request.
C9_NoSecondSearch ==
  [][(sr.isSearching /\ (handleKeyDown \/ handleSearchClick \/ handleReset)) =>
        (sr'.nav = sr.nav /\ sr'.sent = sr.sent)]_vars

\* A search has been started from a page that shows a keyword, so that the
\* reset button can be pressed while it is in progress.
C9_Witness ==
  sr.isSearching /\ sr.nav.active /\ sr.url # <<>>

C19_SyncLosesNothing ==
  [][\A h \in Hooks :
       syncLocalStorage_result(h) =>
         \A c \in Range(local) : c \in Range(local') \/ db'[c] > 0]_vars

(***************************************************************************)
(* List page: the URL query string as the URLSearchParams the components   *)
(* read and rewrite (updateUrlParam, updateUrlParams), and the Home        *)
(* server component that renders the list from it.                         *)
(***************************************************************************)

\* A URLSearchParams object: the sequence of its [key, value] entries.
ParamKeys == {"keyword", "areaCode", "contentTypeId", "sort", "page", "pageNo"}

\* URLSearchParams.get: the first value of the key, or null.
URLSearchParams_get(params, key) ==
  IF \E i \in 1..Len(params) : params[i].key = key
  THEN params[CHOOSE i \in 1..Len(params) :
                /\ params[i].key = key
                /\ \A j \in 1..(i - 1) : params[j].key # key].value
  ELSE "null"

\* URLSearchParams.delete: removes every entry of the key.
URLSearchParams_delete(params, key) ==
  SelectSeq(params, LAMBDA e : e.key # key)

\* URLSearchParams.set: overwrites the first entry of the key and removes the
\* others, or appends a new entry.
URLSearchParams_set(params, key, value) ==
  IF \E i \in 1..Len(params) : params[i].key = key
  THEN LET first == CHOOSE i \in 1..Len(params) :
                      /\ params[i].key = key
                      /\ \A j \in 1..(i - 1) : params[j].key # key
           kept == {i \in 1..Len(params) : params[i].key # key \/ i = first}
           at(n) == CHOOSE i \in kept : Cardinality({j \in kept : j < i}) = n - 1
       IN  [n \in 1..Cardinality(kept) |->
              IF at(n) = first THEN [key |-> key, value |-> value] ELSE params[at(n)]]
  ELSE Append(params, [key |-> key, value |-> value])

\* value && value.trim() !== "" for the values the components pass.
HasValue(value) == value \notin {"", " "}

\* updateUrlParam as a variant that keeps only the keys of preserveKeys.
updateUrlParam_preserved_only(key, value, currentParams, preserveKeys) ==
  LET params == SelectSeq(currentParams, LAMBDA e : e.key \in preserveKeys)
  IN  IF HasValue(value) THEN URLSearchParams_set(params, key, value)
      ELSE URLSearchParams_delete(params, key)

updateUrlParam(key, value, currentParams, preserveKeys) ==
  LET params == IF HasValue(value)
                THEN URLSearchParams_set(currentParams, key, value)
                ELSE URLSearchParams_delete(currentParams, key)
  IN  IF key \in preserveKeys /\ key # "pageNo"
      THEN URLSearchParams_delete(params, "pageNo")
      ELSE params

\* updateUrlParams: updates is a sequence of [key, value] entries
\* (Object.entries order).
RECURSIVE updateUrlParams_forEach(_, _)
updateUrlParams_forEach(updates, params) ==
  IF updates = <<>> THEN params
  ELSE updateUrlParams_forEach(Tail(updates),
         IF HasValue(Head(updates).value)
         THEN URLSearchParams_set(params, Head(updates).key, Head(updates).value)
         ELSE URLSearchParams_delete(params, Head(updates).key))

updateUrlParams(updates, currentParams) ==
  LET params == updateUrlParams_forEach(updates, currentParams)
  IN  IF \E i \in 1..Len(updates) : updates[i].key # "pageNo"
      THEN URLSearchParams_delete(params, "pageNo")
      ELSE params

\* JavaScript values as far as the page computes with them: integers, NaN
\* and undefined.
Num(n) == [kind |-> "number", n |-> n]

NaN == [kind |-> "NaN", n |-> 0]

undefined == [kind |-> "undefined", n |-> 0]

\* parseInt(s, 10) for the page values that occur in a URL.
parseInt(s) ==
  CASE s = "0" -> Num(0) [] s = "1" -> Num(1) [] s = "2" -> Num(2) [] s = "3" -> Num(3)
    [] s = "4" -> Num(4) [] OTHER -> NaN

\* Number.prototype.toString for page numbers.
Number_toString(n) ==
  CASE n = 1 -> "1" [] n = 2 -> "2" [] n = 3 -> "3" [] n = 4 -> "4" [] OTHER -> "0"

\* Math.ceil(a / b) for b > 0; undefined / b and NaN / b are NaN.
Math_ceil_div(a, b) ==
  IF a.kind # "number" THEN NaN ELSE Num((a.n + b - 1) \div b)

\* Math.max: NaN if an argument is NaN.
Math_max(a, b) ==
  IF a.kind # "number" \/ b.kind # "number" THEN NaN
  ELSE IF a.n > b.n THEN a ELSE b

\* a - b on numbers.
Minus(a, b) ==
  IF a.kind # "number" \/ b.kind # "number" THEN NaN ELSE Num(a.n - b.n)

numOfRows == 10

MaxTotalCount == 11

TotalCounts == 0..MaxTotalCount

\* response.body of a successful proxy answer, as far as the page count
\* depends on it: the total count (absent in some answers).  The items are
\* what sortTours is applied to; they influence neither the URL nor the
\* page count.
ListBodies ==
  {[totalCount |-> Num(n)] : n \in TotalCounts} \cup {[totalCount |-> undefined]}

ListUpstream == {"ok", "http_error", "error_code", "exception"}

\* fetchTourList: the object it returns for each outcome of the proxy call.
fetchTourList(outcome, body) ==
  CASE outcome = "http_error" ->
         [totalCount |-> undefined, error |-> "http_error"]
    [] outcome = "error_code" ->
         [totalCount |-> undefined, error |-> "error_code"]
    [] outcome = "exception" ->
         [totalCount |-> Num(0), error |-> "exception"]
    [] OTHER ->
         [totalCount |-> IF body.totalCount \in {undefined, Num(0)} THEN Num(0)
                         ELSE body.totalCount,
          error |-> "null"]

\* fetchTourSearch after its keyword validation: the object it returns for
\* each outcome of the proxy call.
fetchTourSearch_response(outcome, body) ==
  IF outcome = "ok"
  THEN [totalCount |-> IF body.totalCount \in {undefined, Num(0)} THEN Num(0)
                       ELSE body.totalCount,
        error |-> "null"]
  ELSE [totalCount |-> Num(0), error |-> outcome]

\* Home: page = Math.max(1, parseInt(params.page || "1", 10) || 1).
Home_page(params) ==
  LET raw == URLSearchParams_get(params, "page")
      n == parseInt(IF raw \in {"null", ""} THEN "1" ELSE raw)
  IN  Math_max(Num(1), IF n \in {NaN, Num(0)} THEN Num(1) ELSE n).n

\* Home: totalPages = Math.max(1, Math.ceil(totalCount / numOfRows)).
Home_totalPages(totalCount) == Math_max(Num(1), Math_ceil_div(totalCount, numOfRows))

\* The list page before Home has rendered the URL.
LpStart(params) ==
  [params |-> params, status |-> "loading", page |-> 1, sort |-> "latest",
   totalCount |-> Num(0), totalPages |-> Num(1),
   error |-> "null"]

\* Home: what it renders from the URL and the answer of the proxy.
Home_render(params, outcome, body) ==
  LET keyword == URLSearchParams_get(params, "keyword")
      rawSort == URLSearchParams_get(params, "sort")
      sort == IF rawSort \in {"null", ""} THEN "latest" ELSE rawSort
      res == IF keyword \notin {"null", ""}
             THEN fetchTourSearch_response(outcome, body)
             ELSE fetchTourList(outcome, body)
  IN  [params |-> params, status |-> "rendered", page |-> Home_page(params),
       sort |-> sort,
       totalCount |-> res.totalCount, totalPages |-> Home_totalPages(res.totalCount),
       error |-> res.error]

LpIdle == lp = LpStart(<<>>)

\* router.push / router.replace: the page of the new URL is requested.
router_push(params) == LpStart(params)

\* The server answers the navigation: Home renders the URL.
HomeRenders ==
  /\ lp.status = "loading"
  /\ \E outcome \in ListUpstream, body \in ListBodies :
       /\ outcome # "ok" => body = [totalCount |-> undefined]
       /\ lp' = Home_render(lp.params, outcome, body)
  /\ UNCHANGED <<bmVars, pg, px, sr, mp, ft, st, bb, tb, bd, sh, su>>

\* The options of the two selects that are chosen ("" = all).
FilterValues ==
  [areaCode |-> {"", "2"}, contentTypeId |-> {"", "12"}]

\* TourFilters.updateFilter: a region or a type is chosen.
updateFilter(key, value) ==
  /\ lp.status = "rendered"
  /\ lp' = router_push(updateUrlParam(key, value, lp.params,
                                      {"keyword", "areaCode", "contentTypeId"}))
  /\ UNCHANGED <<bmVars, pg, px, sr, mp, ft, st, bb, tb, bd, sh, su>>

\* TourFilters.resetFilters.
resetFilters ==
  /\ lp.status = "rendered"
  /\ lp' = router_push(<<>>)
  /\ UNCHANGED <<bmVars, pg, px, sr, mp, ft, st, bb, tb, bd, sh, su>>

SearchKeywords == {"", "ab"}

\* TourSearch.handleSearch with a trimmed keyword that is empty or long
\* enough, as far as the URL is concerned.
handleSearch_url(keyword) ==
  LET current == URLSearchParams_get(lp.params, "keyword")
  IN  /\ lp.status = "rendered"
      /\ keyword # "" => keyword # (IF current = "null" THEN "" ELSE current)
      /\ lp' = router_push(updateUrlParam("keyword", keyword, lp.params,
                                          {"keyword", "areaCode", "contentTypeId"}))
      /\ UNCHANGED <<bmVars, pg, px, sr, mp, ft, st, bb, tb, bd, sh, su>>

\* TourSort.handleSortChange.
TourSort_handleSortChange(value) ==
  /\ lp.status = "rendered"
  /\ lp' = router_push(updateUrlParam("sort", value, lp.params,
                          {"keyword", "areaCode", "contentTypeId", "sort", "page"}))
  /\ UNCHANGED <<bmVars, pg, px, sr, mp, ft, st, bb, tb, bd, sh, su>>

\* The page buttons of TourPagination that are pressed.
PageButtons == {1, 2}

\* TourPagination: Home renders it if !error && totalPages > 1, and it
\* renders its buttons unless totalPages <= 1; handlePageChange ignores
\* pages outside 1..totalPages.
handlePageChange(page) ==
  /\ lp.status = "rendered"
  /\ lp.error = "null" /\ lp.totalPages.kind = "number" /\ lp.totalPages.n > 1
  /\ ~(lp.totalPages.kind = "number" /\ lp.totalPages.n <= 1)
  /\ ~(page < 1 \/ (lp.totalPages.kind = "number" /\ page > lp.totalPages.n))
  /\ lp' = router_push(updateUrlParam("page", Number_toString(page), lp.params,
                          {"keyword", "areaCode", "contentTypeId", "sort", "page"}))
  /\ UNCHANGED <<bmVars, pg, px, sr, mp, ft, st, bb, tb, bd, sh, su>>

\* The updates a caller of updateUrlParams can pass: one or two filters.
FilterUpdates ==
  {<<[key |-> "areaCode", value |-> a]>> : a \in FilterValues.areaCode}
    \cup {<<[key |-> "areaCode", value |-> "2"], [key |-> "contentTypeId", value |-> t]>> :
             t \in FilterValues.contentTypeId}

\* A component navigates with the result of updateUrlParams.
updateUrlParams_push(updates) ==
  /\ lp.status = "rendered"
  /\ lp' = router_push(updateUrlParams(updates, lp.params))
  /\ UNCHANGED <<bmVars, pg, px, sr, mp, ft, st, bb, tb, bd, sh, su>>

\* A URL of the list page with a page number is opened directly (address
\* bar, link, reload).
Home_open(page) ==
  /\ lp.status = "rendered"
  /\ lp' = router_push(<<[key |-> "page", value |-> page]>>)
  /\ UNCHANGED <<bmVars, pg, px, sr, mp, ft, st, bb, tb, bd, sh, su>>

LpNext ==
  \/ HomeRenders
  \/ \E page \in {"3"} : Home_open(page)
  \/ \E key \in DOMAIN FilterValues : \E value \in FilterValues[key] : updateFilter(key, value)
  \/ resetFilters
  \/ \E keyword \in SearchKeywords : handleSearch_url(keyword)
  \/ \E value \in {"latest", "name"} : TourSort_handleSortChange(value)
  \/ \E page \in PageButtons : handlePageChange(page)
  \/ \E updates \in FilterUpdates : updateUrlParams_push(updates)

(***************************************************************************)
(* Claims on the list page.                                                *)
(***************************************************************************)

\* A step that changes a filter or the keyword through updateUrlParam or
\* updateUrlParams.
FilterOrKeywordStep ==
  \/ \E key \in DOMAIN FilterValues : \E value \in FilterValues[key] : updateFilter(key, value)
  \/ \E keyword \in SearchKeywords : handleSearch_url(keyword)
  \/ \E updates \in FilterUpdates : updateUrlParams_push(updates)

\* C11: after a filter or the search keyword is changed through
\* updateUrlParam or updateUrlParams, the URL carries no page number that
\* makes Home show another page than the first.
C11_FilterChangeResetsPage ==
  [][FilterOrKeywordStep => Home_page(lp'.params) = 1]_vars

SearchFilterKeys == {"keyword", "areaCode", "contentTypeId", "sort"}

\* The list page navigates by an updateUrlParam call for the key.
UpdateUrlParamStep(key) ==
  CASE key = "keyword" -> \E keyword \in SearchKeywords : handleSearch_url(keyword)
    [] key = "sort" -> \E value \in {"latest", "name"} : TourSort_handleSortChange(value)
    [] key = "page" -> \E page \in PageButtons : handlePageChange(page)
    [] OTHER -> \E value \in FilterValues[key] : updateFilter(key, value)

\* C12: a navigation made with updateUrlParam for one key leaves the value
\* of every other search/filter parameter (keyword, areaCode,
\* contentTypeId, sort) as it was.
C12_OtherParamsKept ==
  [][\A key \in SearchFilterKeys \cup {"page"} :
       UpdateUrlParamStep(key) =>
         \A other \in SearchFilterKeys \ {key} :
           URLSearchParams_get(lp'.params, other) = URLSearchParams_get(lp.params, other)]_vars

\* Every search/filter parameter and a page are in the URL that Home
\* rendered after a page change.
C12_Witness ==
  /\ lp.status = "rendered"
  /\ \A key \in SearchFilterKeys : URLSearchParams_get(lp.params, key) # "null"
  /\ lp.params[Len(lp.params)].key = "page"
  /\ lp.page = 2

\* max(1, ceil(totalCount / 10)) for a count that is a number.
PagesFor(totalCount) ==
  IF totalCount.kind # "number" THEN 0
  ELSE CHOOSE p \in 1..(totalCount.n + 1) :
         /\ p * 10 >= totalCount.n
         /\ \A q \in 1..(p - 1) : q * 10 < totalCount.n

\* C16: the number of pages computed by the list page is
\* max(1, ceil(totalCount / 10)), a finite integer of at least 1, also when
\* the fetch returned an error.
C16_TotalPages ==
  lp.status = "rendered" =>
    /\ lp.totalPages.kind = "number"
    /\ lp.totalPages.n >= 1
    /\ lp.totalPages.n = PagesFor(lp.totalCount)


\* C25: when the list page has answered a request whose page number is
\* greater than the number of pages, the page it shows is page 1.
C25_OutOfRangeShowsFirstPage ==
  (/\ lp.status = "rendered"
   /\ lp.totalPages.kind = "number"
   /\ Home_page(lp.params) > lp.totalPages.n) => lp.page = 1

(***************************************************************************)
(* page.tsx: the header of the search results                              *)
(***************************************************************************)

\* The keywords ("" = none, the plain list) and page numbers of the
\* requests followed.
HeaderKeywords == {"", "ab", "cd"}

HeaderPages == {1, 2, 3}

\* The number of items of page pageNo of a result list of totalCount items
\* when numOfRows items are asked for.
PageLength(totalCount, pageNo) ==
  LET rest == totalCount - (pageNo - 1) * numOfRows
  IN  IF rest <= 0 THEN 0 ELSE IF rest > numOfRows THEN numOfRows ELSE rest

\* response.body of a successful answer to searchKeyword for page pageNo:
\* the total count of the matches and the items of that page; items.item is
\* absent for no item, and one object or an array for one item.
SearchBodies(pageNo) ==
  UNION {LET n == PageLength(total, pageNo)
         IN  {[totalCount |-> Num(total), items |-> [kind |-> kind, length |-> n]] :
                kind \in IF n = 0 THEN {"absent"}
                         ELSE IF n = 1 THEN {"object", "array"} ELSE {"array"}} :
         total \in TotalCounts}

\* fetchTourSearch: tours = Array.isArray(items) ? items : items ? [items] : [],
\* of which the header uses the length; [] on every error path.
fetchTourSearch_tours(outcome, body) ==
  IF outcome # "ok" THEN 0
  ELSE CASE body.items.kind = "array" -> body.items.length
         [] body.items.kind = "object" -> 1
         [] OTHER -> 0

\* Home: the number after "총" in the header, shown if keyword && !error.
Home_header(keyword, res, tours) ==
  IF keyword # "" /\ res.error = "null" THEN Num(tours) ELSE undefined

\* No search page is requested.
ShIdle ==
  sh = [status |-> "idle", keyword |-> "", page |-> 1, totalCount |-> Num(0),
        tours |-> 0, error |-> "null", header |-> undefined]

\* /?keyword=...&page=... or /?page=... is requested.
Home_search(keyword, page) ==
  /\ sh.status \in {"idle", "rendered"}
  /\ sh' = [status |-> "loading", keyword |-> keyword, page |-> page,
            totalCount |-> Num(0), tours |-> 0, error |-> "null",
            header |-> undefined]
  /\ UNCHANGED <<bmVars, pg, px, sr, lp, mp, ft, st, bb, tb, bd, su>>

\* Home renders the answer of fetchTourSearch, or of fetchTourList if there
\* is no keyword.
Home_search_render ==
  /\ sh.status = "loading"
  /\ \E outcome \in ListUpstream, body \in SearchBodies(sh.page) :
       /\ outcome # "ok" => body.totalCount = Num(0)
       /\ LET res == IF sh.keyword # "" THEN fetchTourSearch_response(outcome, body)
                     ELSE fetchTourList(outcome, body)
              tours == fetchTourSearch_tours(outcome, body)
          IN  sh' = [sh EXCEPT !.status = "rendered", !.totalCount = res.totalCount,
                               !.tours = tours, !.error = res.error,
                               !.header = Home_header(sh.keyword, res, tours)]
  /\ UNCHANGED <<bmVars, pg, px, sr, lp, mp, ft, st, bb, tb, bd, su>>

ShNext ==
  \/ \E keyword \in HeaderKeywords, page \in HeaderPages : Home_search(keyword, page)
  \/ Home_search_render

\* C26: when a search with a keyword has succeeded, the number shown in the
\* header of the results is the total count of the matches that the search
\* reported.
C26_HeaderShowsTotal ==
  (sh.status = "rendered" /\ sh.keyword # "" /\ sh.error = "null") =>
     sh.header = sh.totalCount

\* ---------------------------------------------------------------------
\* List page: sortTours (page.tsx)
\* ---------------------------------------------------------------------

\* Tour items as the tourism API delivers them (modifiedtime as
\* "YYYYMMDDHHMMSS") and as the application builds them itself
\* (toISOString).
TourSets ==
  { { [contentid |-> "t1", modifiedtime |-> "20240101000000", title |-> "b"],
      [contentid |-> "t2", modifiedtime |-> "20230101000000", title |-> "a"],
      [contentid |-> "t3", modifiedtime |-> "20250101000000", title |-> "c"],
      [contentid |-> "t4", modifiedtime |-> "20220101000000", title |-> "d"] },
    { [contentid |-> "t1", modifiedtime |-> "2024-01-01T00:00:00.000Z", title |-> "b"],
      [contentid |-> "t2", modifiedtime |-> "2023-01-01T00:00:00.000Z", title |-> "a"],
      [contentid |-> "t3", modifiedtime |-> "2025-01-01T00:00:00.000Z", title |-> "c"],
      [contentid |-> "t4", modifiedtime |-> "2022-01-01T00:00:00.000Z", title |-> "d"] } }

\* items.item of a response: any selection of one set in any order.
TourLists ==
  UNION { UNION { {l \in [1..Cardinality(S) -> S] :
                     \A i, j \in 1..Cardinality(S) : l[i] = l[j] => i = j}
                  : S \in SUBSET T }
          : T \in TourSets }

\* new Date(s).getTime(): a time value for a date-time string in the ISO
\* format, NaN (Invalid Date) for any other string.
Date_getTime(s) ==
  CASE s = "2022-01-01T00:00:00.000Z" -> Num(2022)
    [] s = "2023-01-01T00:00:00.000Z" -> Num(2023)
    [] s = "2024-01-01T00:00:00.000Z" -> Num(2024)
    [] s = "2025-01-01T00:00:00.000Z" -> Num(2025)
    [] OTHER -> NaN

\* String.prototype.localeCompare(b, "ko") on the titles.
localeCompare(a, b) ==
  LET rank(t) == CASE t = "a" -> 1 [] t = "b" -> 2 [] t = "c" -> 3 [] OTHER -> 4
  IN  Num(rank(a) - rank(b))

\* The comparator sortTours passes to Array.prototype.sort.
sortTours_compare(a, b, sortBy) ==
  IF sortBy = "latest"
  THEN Minus(Date_getTime(b.modifiedtime), Date_getTime(a.modifiedtime))
  ELSE localeCompare(a.title, b.title)

\* Array.prototype.sort: stable; a comparator result of NaN counts as 0.
RECURSIVE Array_sort_insert(_, _, _)
Array_sort_insert(x, l, sortBy) ==
  IF l = <<>> THEN <<x>>
  ELSE LET v == sortTours_compare(l[Len(l)], x, sortBy)
       IN  IF v.kind = "number" /\ v.n > 0
           THEN Append(Array_sort_insert(x, SubSeq(l, 1, Len(l) - 1), sortBy), l[Len(l)])
           ELSE Append(l, x)

RECURSIVE Array_sort(_, _)
Array_sort(l, sortBy) ==
  IF l = <<>> THEN <<>>
  ELSE Array_sort_insert(l[Len(l)], Array_sort(SubSeq(l, 1, Len(l) - 1), sortBy), sortBy)

\* sortTours: sorted is a copy of tours, sorted in place and returned; the
\* record holds the argument array after the call and the returned array.
sortTours(tours, sortBy) ==
  LET sorted == tours
  IN  [tours |-> tours, sortedTours |-> Array_sort(sorted, sortBy)]

\* sortTours has not been called.
StIdle == st = [status |-> "idle", sortBy |-> "latest", given |-> <<>>,
                tours |-> <<>>, sortedTours |-> <<>>]

\* Home: const sortedTours = sortTours(tours, sort)
Home_sortTours ==
  /\ \E tours \in TourLists, sortBy \in {"latest", "name"} :
       LET call == sortTours(tours, sortBy)
       IN  st' = [status |-> "sorted", sortBy |-> sortBy, given |-> tours,
                  tours |-> call.tours, sortedTours |-> call.sortedTours]
  /\ UNCHANGED <<bmVars, pg, px, sr, lp, mp, ft, bb, tb, bd, sh, su>>

StNext ==
  \/ Home_sortTours

\* The time a modifiedtime string denotes, in either format.
ModifiedYear(s) ==
  CASE s \in {"20220101000000", "2022-01-01T00:00:00.000Z"} -> 2022
    [] s \in {"20230101000000", "2023-01-01T00:00:00.000Z"} -> 2023
    [] s \in {"20240101000000", "2024-01-01T00:00:00.000Z"} -> 2024
    [] OTHER -> 2025

\* The titles in ascending order.
TitleOrder == <<"a", "b", "c", "d">>

TitlePosition(t) == CHOOSE i \in 1..Len(TitleOrder) : TitleOrder[i] = t

\* l is a permutation of m.
IsPermutation(l, m) ==
  /\ Len(l) = Len(m)
  /\ \E f \in [1..Len(l) -> 1..Len(l)] :
       /\ \A i, j \in 1..Len(l) : f[i] = f[j] => i = j
       /\ \A i \in 1..Len(l) : l[i] = m[f[i]]

\* sortTours returns a permutation of its input and leaves the input array
\* as it was.
SortToursPermutes ==
  st.status = "sorted" =>
    /\ IsPermutation(st.sortedTours, st.given)
    /\ st.tours = st.given

\* C17: sortTours returns a permutation of its input without mutating the
\* input; with "latest" the output runs from the newest modifiedtime to the
\* oldest, with "name" by title ascending.
C17_SortTours ==
  st.status = "sorted" =>
    /\ IsPermutation(st.sortedTours, st.given)
    /\ st.tours = st.given
    /\ \A i, j \in 1..Len(st.sortedTours) :
         i < j =>
           IF st.sortBy = "latest"
           THEN ModifiedYear(st.sortedTours[i].modifiedtime)
                  >= ModifiedYear(st.sortedTours[j].modifiedtime)
           ELSE TitlePosition(st.sortedTours[i].title)
                  <= TitlePosition(st.sortedTours[j].title)

(***************************************************************************)
(* Detail page: the two BookmarkButton instances of one place, each with   *)
(* its own useBookmark state, for a signed-in user                         *)
(***************************************************************************)

\* The BookmarkButton of the sticky header and the one of TitleContent.
Buttons == {"header", "title"}

\* The contentId both buttons are given.
PageContentId == "c1"

\* useBookmark state of a button that is not mounted.
Unmounted ==
  [pc |-> "unmounted", isBookmarked |-> FALSE, isLoading |-> FALSE, error |-> FALSE,
   checked |-> FALSE, res |-> "none"]

BbIdle == bb = [db |-> [c \in Contents |-> 0], btn |-> [b \in Buttons |-> Unmounted]]

\* PlaceDetailPage renders: both buttons mount and their effects start
\* checkBookmarkStatus.
PlaceDetailPage_render ==
  /\ \A b \in Buttons : bb.btn[b].pc = "unmounted"
  /\ bb' = [bb EXCEPT !.btn = [b \in Buttons |->
                                 [Unmounted EXCEPT !.pc = "status", !.isLoading = TRUE]]]
  /\ UNCHANGED <<bmVars, pg, px, sr, lp, mp, ft, st, tb, bd, sh, su>>

\* checkBookmarkStatus of one button is answered: no users row (the
\* empty localStorage of the signed-in browser is read), or checkBookmark.
BookmarkButton_checkBookmarkStatus(b) ==
  /\ bb.btn[b].pc = "status"
  /\ \E userFound \in BOOLEAN, ok \in BOOLEAN :
       LET bookmarked == IF userFound THEN checkBookmark(bb.db, PageContentId, ok)
                         ELSE isLocalStorageBookmarked(<<>>, PageContentId)
       IN  bb' = [bb EXCEPT !.btn[b] = [@ EXCEPT !.pc = "idle",
                                                 !.isBookmarked = bookmarked,
                                                 !.isLoading = FALSE]]
  /\ UNCHANGED <<bmVars, pg, px, sr, lp, mp, ft, st, tb, bd, sh, su>>

\* handleToggle of one button, signed in: toggleBookmark starts.
BookmarkButton_handleToggle(b) ==
  /\ bb.btn[b].pc = "idle"
  /\ ~bb.btn[b].isLoading
  /\ bb' = [bb EXCEPT !.btn[b] = [@ EXCEPT !.pc = "check", !.isLoading = TRUE,
                                            !.error = FALSE, !.checked = FALSE,
                                            !.res = "none"]]
  /\ UNCHANGED <<bmVars, pg, px, sr, lp, mp, ft, st, tb, bd, sh, su>>

\* toggleBookmark: getUserIdByClerkId (no row: throw), then checkBookmark.
BookmarkButton_toggleBookmark_check(b) ==
  /\ bb.btn[b].pc = "check"
  /\ \/ bb' = [bb EXCEPT !.btn[b] = [@ EXCEPT !.pc = "idle", !.isLoading = FALSE,
                                               !.error = TRUE]]
     \/ \E ok \in BOOLEAN :
          bb' = [bb EXCEPT !.btn[b] =
                   [@ EXCEPT !.pc = "write",
                             !.checked = checkBookmark(bb.db, PageContentId, ok)]]
  /\ UNCHANGED <<bmVars, pg, px, sr, lp, mp, ft, st, tb, bd, sh, su>>

\* toggleBookmark: removeBookmark or addBookmark reaches the database.
BookmarkButton_toggleBookmark_write(b) ==
  /\ bb.btn[b].pc = "write"
  /\ \E ok \in BOOLEAN :
       LET r == IF bb.btn[b].checked THEN removeBookmark(bb.db, PageContentId, ok)
                ELSE addBookmark(bb.db, PageContentId, ok)
       IN  bb' = [bb EXCEPT !.db = r.db,
                            !.btn[b] = [@ EXCEPT !.pc = "fin", !.res = r.res]]
  /\ UNCHANGED <<bmVars, pg, px, sr, lp, mp, ft, st, tb, bd, sh, su>>

\* toggleBookmark: setIsBookmarked of this button, or catch; finally.
BookmarkButton_toggleBookmark_fin(b) ==
  /\ bb.btn[b].pc = "fin"
  /\ bb' = [bb EXCEPT !.btn[b] =
              [@ EXCEPT !.pc = "idle", !.isLoading = FALSE,
                        !.error = (bb.btn[b].res = "err"),
                        !.isBookmarked = IF bb.btn[b].res = "err" THEN @
                                         ELSE ~bb.btn[b].checked]]
  /\ UNCHANGED <<bmVars, pg, px, sr, lp, mp, ft, st, tb, bd, sh, su>>

\* The page is left: the buttons unmount.
PlaceDetailPage_leave ==
  /\ \A b \in Buttons : bb.btn[b].pc = "idle"
  /\ bb' = [bb EXCEPT !.btn = [b \in Buttons |-> Unmounted]]
  /\ UNCHANGED <<bmVars, pg, px, sr, lp, mp, ft, st, tb, bd, sh, su>>

BbNext ==
  \/ PlaceDetailPage_render
  \/ \E b \in Buttons : BookmarkButton_checkBookmarkStatus(b)
  \/ \E b \in Buttons : BookmarkButton_handleToggle(b)
  \/ \E b \in Buttons : BookmarkButton_toggleBookmark_check(b)
  \/ \E b \in Buttons : BookmarkButton_toggleBookmark_write(b)
  \/ \E b \in Buttons : BookmarkButton_toggleBookmark_fin(b)
  \/ PlaceDetailPage_leave

\* C20: whenever no bookmark operation is in flight, the bookmark buttons
\* of the page show the same state, and it is whether the bookmark exists
\* in the database.
C20_ButtonsAgree ==
  (\A b \in Buttons : bb.btn[b].pc = "idle") =>
    \A b \in Buttons : bb.btn[b].isBookmarked = (bb.db[PageContentId] > 0)

(***************************************************************************)
(* One BookmarkButton and its useBookmark hook for a signed-in user, with  *)
(* every call of handleToggle that has not returned yet                    *)
(***************************************************************************)

\* The number of handleToggle calls followed at the same time.
MaxInFlight == 2

\* s without its i-th element.
RemoveAt(s, i) == SubSeq(s, 1, i - 1) \o SubSeq(s, i + 1, Len(s))

\* The button is not rendered.
TbIdle ==
  tb = [mounted |-> FALSE, db |-> 0, isBookmarked |-> FALSE, isLoading |-> TRUE,
        error |-> FALSE, status |-> 0, sync |-> "none", ops |-> <<>>,
        toast |-> "none"]

\* The button mounts with Clerk loaded: useState(true) for isLoading, the
\* mount effect calls checkBookmarkStatus; syncLocalStorage runs in the
\* background if localStorage holds bookmarks.  The bookmark may exist.
useBookmark_mount ==
  /\ ~tb.mounted
  /\ \E row \in {0, 1}, sync \in {"none", "running"} :
       tb' = [tb EXCEPT !.mounted = TRUE, !.db = row, !.isLoading = TRUE,
                        !.error = FALSE, !.status = 1, !.sync = sync]
  /\ UNCHANGED <<bmVars, pg, px, sr, lp, mp, ft, st, bb, bd, sh, su>>

\* A checkBookmarkStatus is answered: no users row (localStorage does not
\* hold the place), the answer of checkBookmark, or a throw caught with
\* setError; in every case setIsLoading(false).
useBookmark_checkBookmarkStatus ==
  /\ tb.status > 0
  /\ \E outcome \in {"no_user", "ok", "threw"} :
       tb' = [tb EXCEPT !.status = @ - 1,
                        !.isBookmarked = (outcome = "ok" /\ tb.db = 1),
                        !.error = IF outcome = "threw" THEN TRUE ELSE @,
                        !.isLoading = FALSE]
  /\ UNCHANGED <<bmVars, pg, px, sr, lp, mp, ft, st, bb, bd, sh, su>>

\* syncLocalStorage ends: with synced > 0, clearLocalStorageBookmarks, then
\* await checkBookmarkStatus(), which sets isLoading and asks the database;
\* otherwise nothing more.
useBookmark_syncLocalStorage ==
  /\ tb.mounted
  /\ tb.sync = "running"
  /\ \/ tb' = [tb EXCEPT !.sync = "done", !.isLoading = TRUE, !.error = FALSE,
                         !.status = @ + 1]
     \/ tb' = [tb EXCEPT !.sync = "done"]
  /\ UNCHANGED <<bmVars, pg, px, sr, lp, mp, ft, st, bb, bd, sh, su>>

\* A click on the enabled button: handleToggle keeps isBookmarked and error
\* of the render it belongs to and calls toggleBookmark, which passes
\* if (isLoading) return and sets isLoading.
BookmarkButton_onClick ==
  /\ tb.mounted
  /\ ~tb.isLoading
  /\ Len(tb.ops) < MaxInFlight
  /\ tb' = [tb EXCEPT !.isLoading = TRUE, !.error = FALSE,
                      !.ops = Append(@, [pc |-> "check", checked |-> FALSE,
                                         res |-> "none",
                                         wasBookmarked |-> tb.isBookmarked,
                                         error |-> tb.error])]
  /\ UNCHANGED <<bmVars, pg, px, sr, lp, mp, ft, st, bb, bd, sh, su>>

\* The rest of handleToggle after await toggleBookmark(): the toast it
\* shows, "none" if it shows none.
handleToggle_toast(op) ==
  IF op.error THEN "none"
  ELSE IF op.wasBookmarked THEN "removed" ELSE "added"

\* toggleBookmark whose catch and finally leave isLoading set.
toggleBookmark_end_loading(i, err, setTo) ==
  [tb EXCEPT !.isLoading = err,
             !.error = err,
             !.isBookmarked = IF setTo = "keep" THEN @ ELSE setTo = "on",
             !.ops = RemoveAt(@, i),
             !.toast = handleToggle_toast(tb.ops[i])]

\* Call i of toggleBookmark ends: catch, finally setIsLoading(false), and
\* handleToggle goes on to its toast.
toggleBookmark_end(i, err, setTo) ==
  [tb EXCEPT !.isLoading = FALSE,
             !.error = err,
             !.isBookmarked = IF setTo = "keep" THEN @ ELSE setTo = "on",
             !.ops = RemoveAt(@, i),
             !.toast = handleToggle_toast(tb.ops[i])]

\* Call i: getUserIdByClerkId (no row: throw), then checkBookmark.
useBookmark_toggleBookmark_check(i) ==
  /\ i \in 1..Len(tb.ops)
  /\ tb.ops[i].pc = "check"
  /\ \/ tb' = toggleBookmark_end(i, TRUE, "keep")
     \/ \E ok \in BOOLEAN :
          tb' = [tb EXCEPT !.ops[i].pc = "write",
                           !.ops[i].checked = (ok /\ tb.db = 1)]
  /\ UNCHANGED <<bmVars, pg, px, sr, lp, mp, ft, st, bb, bd, sh, su>>

\* Call i: removeBookmark or addBookmark reaches the database.
useBookmark_toggleBookmark_write(i) ==
  /\ i \in 1..Len(tb.ops)
  /\ tb.ops[i].pc = "write"
  /\ \E ok \in BOOLEAN :
       LET res == IF ~ok THEN "err"
                  ELSE IF tb.ops[i].checked THEN "ok"
                  ELSE IF tb.db = 1 THEN "dup" ELSE "ok"
           row == IF ~ok THEN tb.db
                  ELSE IF tb.ops[i].checked THEN 0 ELSE 1
       IN  tb' = [tb EXCEPT !.db = row, !.ops[i].pc = "fin", !.ops[i].res = res]
  /\ UNCHANGED <<bmVars, pg, px, sr, lp, mp, ft, st, bb, bd, sh, su>>

\* Call i: the answer of the write arrives; a failed write throws, "already
\* bookmarked" counts as bookmarked.
useBookmark_toggleBookmark_fin(i) ==
  /\ i \in 1..Len(tb.ops)
  /\ tb.ops[i].pc = "fin"
  /\ tb' = IF tb.ops[i].res = "err" THEN toggleBookmark_end(i, TRUE, "keep")
           ELSE IF tb.ops[i].checked THEN toggleBookmark_end(i, FALSE, "off")
           ELSE toggleBookmark_end(i, FALSE, "on")
  /\ UNCHANGED <<bmVars, pg, px, sr, lp, mp, ft, st, bb, bd, sh, su>>

\* The page is left.
BookmarkButton_unmount ==
  /\ tb.mounted
  /\ tb.status = 0 /\ tb.ops = <<>> /\ tb.sync # "running"
  /\ tb' = [tb EXCEPT !.mounted = FALSE, !.isBookmarked = FALSE, !.isLoading = TRUE,
                      !.error = FALSE, !.sync = "none", !.toast = "none", !.db = 0]
  /\ UNCHANGED <<bmVars, pg, px, sr, lp, mp, ft, st, bb, bd, sh, su>>

TbNext ==
  \/ useBookmark_mount
  \/ useBookmark_checkBookmarkStatus
  \/ useBookmark_syncLocalStorage
  \/ BookmarkButton_onClick
  \/ \E i \in 1..MaxInFlight : useBookmark_toggleBookmark_check(i)
  \/ \E i \in 1..MaxInFlight : useBookmark_toggleBookmark_write(i)
  \/ \E i \in 1..MaxInFlight : useBookmark_toggleBookmark_fin(i)
  \/ BookmarkButton_unmount

\* C21: at most one toggle of the button is in flight at any time.
C21_OneToggleInFlight == Len(tb.ops) <= 1

C24_ToastOnlyOnChange ==
  [][\A i \in 1..Len(tb.ops) :
       (Len(tb'.ops) < Len(tb.ops) /\ tb'.ops = RemoveAt(tb.ops, i)) =>
          /\ tb'.toast = "added" => (tb.ops[i].res = "ok" /\ ~tb.ops[i].checked)
          /\ tb'.toast = "removed" => (tb.ops[i].res = "ok" /\ tb.ops[i].checked)]_vars

(***************************************************************************)
(* bookmark-list.tsx: the displayed list against the store during a bulk   *)
(* delete                                                                  *)
(***************************************************************************)

\* The places a user may have bookmarked.
BookmarkIds == {"c1", "c2", "c3"}

\* The bookmarks page is not open.
BdIdle ==
  bd = [stage |-> "closed", isAuthenticated |-> FALSE, store |-> {},
        bookmarks |-> {}, selectedIds |-> {}, pending |-> {}, toast |-> "none"]

\* The bookmarks page is opened: useState(initialBookmarks) holds what the
\* store (bookmarks table or localStorage) holds at that moment.
BookmarkList_mount ==
  /\ bd.stage = "closed"
  /\ \E isAuthenticated \in BOOLEAN, rows \in SUBSET BookmarkIds :
       bd' = [bd EXCEPT !.stage = "open", !.isAuthenticated = isAuthenticated,
                        !.store = rows, !.bookmarks = rows]
  /\ UNCHANGED <<bmVars, pg, px, sr, lp, mp, ft, st, bb, tb, sh, su>>

\* A checkbox of the list is clicked.
handleToggleSelect(id) ==
  /\ bd.stage \in {"open", "finished"}
  /\ id \in bd.bookmarks
  /\ bd' = [bd EXCEPT !.selectedIds = IF id \in @ THEN @ \ {id}
                                       ELSE @ \cup {id}]
  /\ UNCHANGED <<bmVars, pg, px, sr, lp, mp, ft, st, bb, tb, sh, su>>

\* The state after the delete succeeded: setBookmarks(filter),
\* setSelectedIds(new Set()), toast.success.
handleBulkDelete_success(store) ==
  [bd EXCEPT !.stage = "finished", !.store = store, !.pending = {},
             !.bookmarks = @ \ bd.selectedIds, !.selectedIds = {},
             !.toast = "success"]

\* The delete dialog is confirmed.  Anonymous: localStorage is filtered at
\* once.  Signed in: no users row throws; otherwise every selected
\* bookmark gets its removeBookmark request and Promise.all waits.
handleBulkDelete_BookmarkList ==
  /\ bd.stage \in {"open", "finished"}
  /\ bd.pending = {}
  /\ bd.selectedIds # {}
  /\ IF ~bd.isAuthenticated
     THEN bd' = handleBulkDelete_success(bd.store \ bd.selectedIds)
     ELSE \/ bd' = [bd EXCEPT !.stage = "finished", !.toast = "error"]
          \/ bd' = [bd EXCEPT !.stage = "deleting", !.pending = bd.selectedIds,
                              !.toast = "none"]
  /\ UNCHANGED <<bmVars, pg, px, sr, lp, mp, ft, st, bb, tb, sh, su>>

\* One removeBookmark of deletePromises is answered.  A failure rejects
\* Promise.all: catch shows toast.error and the handler returns while the
\* other requests go on; the last success lets the handler update the list.
deletePromises_removeBookmark(id) ==
  /\ id \in bd.pending
  /\ \E ok \in BOOLEAN :
       LET store == IF ok THEN bd.store \ {id} ELSE bd.store
           left == bd.pending \ {id}
       IN  bd' = IF bd.stage # "deleting"
                 THEN [bd EXCEPT !.store = store, !.pending = left]
                 ELSE IF ~ok
                 THEN [bd EXCEPT !.stage = "finished", !.pending = left,
                                 !.toast = "error"]
                 ELSE IF left = {}
                 THEN handleBulkDelete_success(store)
                 ELSE [bd EXCEPT !.store = store, !.pending = left]
  /\ UNCHANGED <<bmVars, pg, px, sr, lp, mp, ft, st, bb, tb, sh, su>>

\* The page is left.
BookmarkList_unmount ==
  /\ bd.stage \in {"open", "finished"}
  /\ bd.pending = {}
  /\ bd' = [stage |-> "closed", isAuthenticated |-> FALSE, store |-> {},
            bookmarks |-> {}, selectedIds |-> {}, pending |-> {}, toast |-> "none"]
  /\ UNCHANGED <<bmVars, pg, px, sr, lp, mp, ft, st, bb, tb, sh, su>>

BdNext ==
  \/ BookmarkList_mount
  \/ \E id \in BookmarkIds : handleToggleSelect(id)
  \/ handleBulkDelete_BookmarkList
  \/ \E id \in BookmarkIds : deletePromises_removeBookmark(id)
  \/ BookmarkList_unmount

\* C23: once a bulk delete has finished, with a success or an error toast,
\* and none of its requests is open, the list shows a bookmark if and only
\* if the store still holds it.
C23_ListAgreesWithStore ==
  (bd.stage = "finished" /\ bd.pending = {}) =>
     \A c \in BookmarkIds : c \in bd.bookmarks <=> c \in bd.store

(***************************************************************************)
(* api/sync-user/route.ts against the users table                          *)
(***************************************************************************)

\* The Clerk users, the names Clerk may report for one, and the requests
\* the server handles at the same time.
ClerkIds == {"u1", "u2"}

UserNames == {"a", "b"}

SyncCalls == {1, 2, 3}

\* The successful syncs of one user that are counted.
MaxSynced == 2

\* The rows of the table with the clerk_id.
users_rows(users, clerk_id) == {i \in DOMAIN users : users[i].clerk_id = clerk_id}

\* insert without a conflict target.
users_insert(users, row) == Append(users, row)

\* upsert(row, {onConflict: "clerk_id"}) on a table whose clerk_id is
\* UNIQUE: one statement that updates the row of the clerk_id or inserts.
users_upsert(users, row) ==
  IF users_rows(users, row.clerk_id) # {}
  THEN [i \in DOMAIN users |-> IF users[i].clerk_id = row.clerk_id THEN row ELSE users[i]]
  ELSE Append(users, row)

\* A request slot with no request.
NoCall == [pc |-> "none", userId |-> "null", name |-> "", status |-> 0]

\* The table is empty and no request is open.
SuIdle ==
  su = [users |-> <<>>, calls |-> [k \in SyncCalls |-> NoCall],
        synced |-> [id \in ClerkIds |-> 0]]

\* POST arrives: auth() gives the Clerk id of the session or null (401).
POST_auth(k) ==
  /\ su.calls[k].pc \in {"none", "done"}
  /\ \E userId \in ClerkIds \cup {"null"} :
       su' = [su EXCEPT !.calls[k] =
                IF userId = "null"
                THEN [pc |-> "done", userId |-> userId, name |-> "", status |-> 401]
                ELSE [pc |-> "getUser", userId |-> userId, name |-> "", status |-> 0]]
  /\ UNCHANGED <<bmVars, pg, px, sr, lp, mp, ft, st, bb, tb, bd, sh>>

\* client.users.getUser answers: the user with the current name, no user
\* (404), or a throw (500).
POST_getUser(k) ==
  /\ su.calls[k].pc = "getUser"
  /\ \/ \E name \in UserNames :
          su' = [su EXCEPT !.calls[k].pc = "upsert", !.calls[k].name = name]
     \/ \E status \in {404, 500} :
          su' = [su EXCEPT !.calls[k].pc = "done", !.calls[k].status = status]
  /\ UNCHANGED <<bmVars, pg, px, sr, lp, mp, ft, st, bb, tb, bd, sh>>

\* The upsert reaches the database and is answered: success (200) or an
\* error that leaves the table as it was (500).
POST_upsert(k) ==
  /\ su.calls[k].pc = "upsert"
  /\ LET c == su.calls[k]
     IN  \/ su' = [su EXCEPT !.users = users_upsert(@, [clerk_id |-> c.userId,
                                                         name |-> c.name]),
                             !.synced[c.userId] = IF @ < MaxSynced THEN @ + 1 ELSE @,
                             !.calls[k].pc = "done", !.calls[k].status = 200]
         \/ su' = [su EXCEPT !.calls[k].pc = "done", !.calls[k].status = 500]
  /\ UNCHANGED <<bmVars, pg, px, sr, lp, mp, ft, st, bb, tb, bd, sh>>

SuNext ==
  \/ \E k \in SyncCalls : POST_auth(k)
  \/ \E k \in SyncCalls : POST_getUser(k)
  \/ \E k \in SyncCalls : POST_upsert(k)

\* C27: whatever POST /api/sync-user calls have run and are running, the
\* users table holds exactly one row for every Clerk id that has synced
\* and never two rows with the same clerk_id.
C27_OneRowPerClerkId ==
  \A id \in ClerkIds :
    /\ Cardinality(users_rows(su.users, id)) <= 1
    /\ su.synced[id] > 0 => Cardinality(users_rows(su.users, id)) = 1

\* A user has synced twice and a further call for the same user, started
\* before, is about to write.
C27_Witness ==
  \E id \in ClerkIds, k \in SyncCalls :
    /\ su.synced[id] = 2
    /\ su.calls[k].pc = "upsert" /\ su.calls[k].userId = id
    /\ \E j \in DOMAIN su.users : su.users[j].clerk_id = id /\ su.users[j].name # su.calls[k].name

(***************************************************************************)
(* Coordinate conversion (coordinate.ts).  mapx and mapy are strings, here *)
(* sequences of characters; numbers that need not be integers are          *)
(* fractions num / den with den > 0.                                       *)
(***************************************************************************)

Frac(num, den) == [kind |-> "number", num |-> num, den |-> den]

FracNaN == [kind |-> "NaN", num |-> 0, den |-> 1]

\* The mapx / mapy values of a tour item: absent, blank, no number, a number
\* with a suffix, decimal degrees, and integer-encoded values inside and
\* just outside the ranges.
KATECStrings ==
  { <<>>,
    <<" ">>,
    <<"a", "b", "c">>,
    <<"1", "2", "a">>,
    <<".">>,
    <<"-", "5">>,
    <<" ", "4", "2">>,
    <<"1", "2", "6", ".", "9", "8">>,
    <<"1", "2", "7", "1", "2", "3", "4", "5", "6", "7">>,
    <<"3", "7", "1", "2", "3", "4", "5", "6", "7">>,
    <<"1", "8", "0", "0", "0", "0", "0", "0", "0", "0">>,
    <<"1", "8", "0", "0", "0", "0", "0", "0", "0", "1">>,
    <<"-", "1", "8", "0", "0", "0", "0", "0", "0", "0", "1">>,
    <<"9", "0", "0", "0", "0", "0", "0", "0", "0">>,
    <<"9", "0", "0", "0", "0", "0", "0", "0", "1">>,
    <<"-", "9", "0", "0", "0", "0", "0", "0", "0", "1">> }

DigitChars == {"0", "1", "2", "3", "4", "5", "6", "7", "8", "9"}

DigitValue(ch) ==
  CASE ch = "0" -> 0 [] ch = "1" -> 1 [] ch = "2" -> 2 [] ch = "3" -> 3 [] ch = "4" -> 4
    [] ch = "5" -> 5 [] ch = "6" -> 6 [] ch = "7" -> 7 [] ch = "8" -> 8 [] OTHER -> 9

\* The longest prefix of s made of digits.
RECURSIVE DigitPrefix(_)
DigitPrefix(s) ==
  IF s # <<>> /\ Head(s) \in DigitChars THEN <<Head(s)>> \o DigitPrefix(Tail(s)) ELSE <<>>

\* The value of a sequence of digits, after the value acc of the digits
\* before it.
RECURSIVE DigitsValue(_, _)
DigitsValue(s, acc) ==
  IF s = <<>> THEN acc ELSE DigitsValue(Tail(s), 10 * acc + DigitValue(Head(s)))

RECURSIVE Pow10(_)
Pow10(k) == IF k = 0 THEN 1 ELSE 10 * Pow10(k - 1)

RECURSIVE trimStart(_)
trimStart(t) == IF t # <<>> /\ Head(t) = " " THEN trimStart(Tail(t)) ELSE t

\* parseFloat: leading white space is skipped, then the longest prefix that
\* is a decimal literal (sign, digits, fraction) is converted; NaN if that
\* prefix has no digit.
parseFloat(s) ==
  LET t == trimStart(s)
      neg == t # <<>> /\ Head(t) = "-"
      u == IF neg THEN Tail(t) ELSE t
      int == DigitPrefix(u)
      rest == SubSeq(u, Len(int) + 1, Len(u))
      frac == IF rest # <<>> /\ Head(rest) = "." THEN DigitPrefix(Tail(rest)) ELSE <<>>
      num == DigitsValue(frac, DigitsValue(int, 0))
  IN  IF int = <<>> /\ frac = <<>> THEN FracNaN
      ELSE Frac(IF neg THEN -num ELSE num, Pow10(Len(frac)))

\* a / n for a positive integer n.
DivideBy(a, n) == IF a.kind = "NaN" THEN FracNaN ELSE Frac(a.num, a.den * n)

\* a < n and a > n for an integer n; false for NaN.
LessThan(a, n) == a.kind = "number" /\ a.num \div a.den < n

GreaterThan(a, n) ==
  /\ a.kind = "number"
  /\ \/ a.num \div a.den > n
     \/ a.num \div a.den = n /\ a.num % a.den > 0

KATEC_DIVISOR == 10000000

\* convertKATECToNaver without the range check of the latitude.
convertKATECToNaver_lng_checked(mapx, mapy) ==
  IF mapx = <<>> \/ mapy = <<>> \/ trim(mapx) = <<>> \/ trim(mapy) = <<>>
  THEN [kind |-> "null"]
  ELSE LET lng == DivideBy(parseFloat(mapx), KATEC_DIVISOR)
           lat == DivideBy(parseFloat(mapy), KATEC_DIVISOR)
       IN  IF lng.kind = "NaN" \/ lat.kind = "NaN" THEN [kind |-> "null"]
           ELSE IF LessThan(lng, -180) \/ GreaterThan(lng, 180)
                THEN [kind |-> "null"]
                ELSE [kind |-> "coordinate", lng |-> lng, lat |-> lat]

convertKATECToNaver(mapx, mapy) ==
  IF mapx = <<>> \/ mapy = <<>> \/ trim(mapx) = <<>> \/ trim(mapy) = <<>>
  THEN [kind |-> "null"]
  ELSE LET lng == DivideBy(parseFloat(mapx), KATEC_DIVISOR)
           lat == DivideBy(parseFloat(mapy), KATEC_DIVISOR)
       IN  IF lng.kind = "NaN" \/ lat.kind = "NaN" THEN [kind |-> "null"]
           ELSE IF \/ LessThan(lng, -180) \/ GreaterThan(lng, 180)
                   \/ LessThan(lat, -90) \/ GreaterThan(lat, 90)
                THEN [kind |-> "null"]
                ELSE [kind |-> "coordinate", lng |-> lng, lat |-> lat]


(***************************************************************************)
(* DetailMap (detail-map.tsx): the map component of the detail page, with  *)
(* its two effects and its render branches.                                *)
(***************************************************************************)

\* Outcomes of loadNaverMapScript: resolved, or rejected (timeout, onerror,
\* SDK object missing after onload).
ScriptOutcomes == {"resolved", "timeout", "failed", "unavailable"}

\* The branch DetailMap renders for its state.
DetailMap_view(error, loading, coordinates) ==
  IF error # "null" THEN "error"
  ELSE IF loading THEN "loading"
  ELSE IF coordinates.kind = "null" THEN "no_coordinates"
  ELSE "map"

\* The component after its first render: useState defaults, the loading
\* skeleton on screen, both effects to run.  rendered is the value of
\* coordinates in the last render (the one the effect closures see), deps
\* the one the init effect last ran with.
MpStart(mapx, mapy, apiKey) ==
  [mapx |-> mapx, mapy |-> mapy, apiKey |-> apiKey,
   loading |-> TRUE, error |-> "null", coordinates |-> [kind |-> "null"],
   view |-> "loading", rendered |-> [kind |-> "null"], deps |-> [kind |-> "null"],
   markers |-> 0, effects |-> <<"coordinates", "init">>, dirty |-> FALSE]

\* No detail page is open.
MpIdle ==
  mp = [MpStart(<<>>, <<>>, FALSE) EXCEPT !.view = "unmounted", !.effects = <<>>]

\* The detail page of a place renders <DetailMap tourDetail={...} />; the
\* deployment has a map API key or not.
PlaceDetailPage(mapx, mapy, apiKey) ==
  /\ mp.view = "unmounted"
  /\ mp' = MpStart(mapx, mapy, apiKey)
  /\ UNCHANGED <<bmVars, pg, px, sr, lp, ft, st, bb, tb, bd, sh, su>>

\* convertKATECToNaver for the mapx and mapy of every tour item, tabulated.
Coordinates ==
  [mapx \in KATECStrings, mapy \in KATECStrings |-> convertKATECToNaver(mapx, mapy)]

\* The effect with dependencies [mapx, mapy, title]: coordinate conversion.
DetailMap_coordinates_effect ==
  /\ mp.effects # <<>> /\ Head(mp.effects) = "coordinates"
  /\ LET coord == Coordinates[mp.mapx, mp.mapy]
     IN  mp' = IF mp.mapx = <<>> \/ mp.mapy = <<>>
               THEN [mp EXCEPT !.error = "no location", !.loading = FALSE,
                               !.effects = Tail(@), !.dirty = TRUE]
               ELSE IF coord.kind = "null"
               THEN [mp EXCEPT !.error = "conversion failed", !.loading = FALSE,
                               !.effects = Tail(@), !.dirty = TRUE]
               ELSE [mp EXCEPT !.coordinates = coord, !.effects = Tail(@),
                               !.dirty = TRUE]
  /\ UNCHANGED <<bmVars, pg, px, sr, lp, ft, st, bb, tb, bd, sh, su>>

\* loadNaverMapScript(...).then: map, one marker and its info window.
loadNaverMapScript_then(m) ==
  IF m.view # "map" \/ m.rendered.kind = "null" THEN m
  ELSE [m EXCEPT !.markers = 1, !.loading = FALSE, !.dirty = TRUE]

\* loadNaverMapScript(...).catch.
loadNaverMapScript_catch(m) ==
  [m EXCEPT !.error = "map failed", !.loading = FALSE, !.dirty = TRUE]

\* The effect with dependencies [apiKey, coordinates, title, addr1]: map
\* initialisation.  mapRef.current is the container element, which is in
\* the document only while the "map" branch is rendered.
DetailMap_init_effect ==
  /\ mp.effects # <<>> /\ Head(mp.effects) = "init"
  /\ \E outcome \in ScriptOutcomes :
       LET m == [mp EXCEPT !.effects = Tail(@), !.deps = mp.rendered]
       IN  mp' = IF ~mp.apiKey
                 THEN [m EXCEPT !.error = "no api key", !.loading = FALSE, !.dirty = TRUE]
                 ELSE IF mp.view # "map" \/ mp.rendered.kind = "null" THEN m
                 ELSE IF outcome = "resolved" THEN loadNaverMapScript_then(m)
                 ELSE loadNaverMapScript_catch(m)
  /\ UNCHANGED <<bmVars, pg, px, sr, lp, ft, st, bb, tb, bd, sh, su>>

\* React renders the component again after state was set; the init effect
\* runs again when coordinates changed.
DetailMap ==
  /\ mp.effects = <<>> /\ mp.dirty
  /\ mp' = [mp EXCEPT !.view = DetailMap_view(mp.error, mp.loading, mp.coordinates),
                      !.rendered = mp.coordinates,
                      !.dirty = FALSE,
                      !.effects = IF mp.coordinates # mp.deps THEN <<"init">> ELSE <<>>]
  /\ UNCHANGED <<bmVars, pg, px, sr, lp, ft, st, bb, tb, bd, sh, su>>

MpNext ==
  \/ \E mapx \in KATECStrings, mapy \in KATECStrings, apiKey \in BOOLEAN :
       PlaceDetailPage(mapx, mapy, apiKey)
  \/ DetailMap_coordinates_effect
  \/ DetailMap_init_effect
  \/ DetailMap


\* C13: with a map API key and coordinates that convert, the map component
\* eventually leaves its loading state: it shows the map with exactly one
\* marker, or an error message.
C13_MapLeavesLoading ==
  (/\ mp.apiKey
   /\ Coordinates[mp.mapx, mp.mapy].kind = "coordinate"
   /\ mp.view = "loading")
    ~> (mp.view = "error" \/ (mp.view = "map" /\ mp.markers = 1))
\* A string with a character that is not white space.
NonBlank(s) == \E i \in 1..Len(s) : s[i] # " "

\* -limit <= v / 10,000,000 <= limit, for a number v = num / den.
WithinDegrees(v, limit) ==
  LET q == v.num \div v.den
      r == v.num % v.den
  IN  /\ q >= -(limit * 10000000)
      /\ q < limit * 10000000 \/ (q = limit * 10000000 /\ r = 0)

\* C15: convertKATECToNaver(mapx, mapy) returns a coordinate exactly when
\* both strings are non-blank, both parse as numbers, mapx / 10,000,000 is
\* in [-180, 180] and mapy / 10,000,000 in [-90, 90]; then lng and lat are
\* these quotients; otherwise it returns null.
C15_ConversionContract ==
  mp.view # "unmounted" =>
    LET result == convertKATECToNaver(mp.mapx, mp.mapy)
        x == parseFloat(mp.mapx)
        y == parseFloat(mp.mapy)
    IN  IF /\ NonBlank(mp.mapx) /\ NonBlank(mp.mapy)
           /\ x.kind = "number" /\ y.kind = "number"
           /\ WithinDegrees(x, 180) /\ WithinDegrees(y, 90)
        THEN /\ result.kind = "coordinate"
             /\ result.lng = Frac(x.num, x.den * 10000000)
             /\ result.lat = Frac(y.num, y.den * 10000000)
        ELSE result = [kind |-> "null"]

C15_Witness ==
  /\ mp.mapx = <<"1", "2", "7", "1", "2", "3", "4", "5", "6", "7">>
  /\ mp.mapy = <<"3", "7", "1", "2", "3", "4", "5", "6", "7">>
  /\ mp.coordinates.kind = "coordinate"
  /\ mp.coordinates.lng = Frac(1271234567, 10000000)
  /\ mp.coordinates.lat = Frac(371234567, 10000000)

\* ---------------------------------------------------------------------
\* Data-fetch helpers (tour-api-client.ts, bookmark-api.ts)
\* ---------------------------------------------------------------------

\* What the body of a try block, or a whole async function, ends with.
Return(value) == [kind |-> "return", value |-> value]

Throw == [kind |-> "throw", value |-> <<>>]

\* try { body } with the catch clause removed.
TryCatch_rethrow(body, fallback) == body

\* try { body } catch (error) { return fallback }
TryCatch(body, fallback) == IF body.kind = "throw" THEN Return(fallback) ELSE body

\* The two versions of tour-api-client.ts in the repository, named by the
\* line of their fetchAreaCodes.
TourApiClientFiles == {"part_020:60", "part_020:246"}

Area(code, name) == [code |-> code, name |-> name]

\* AREA_CODE_NAME_MAP; the Korean names are written in Latin letters.
AREA_CODE_NAME_MAP ==
  << Area(<<"1">>, "Seoul"), Area(<<"2">>, "Incheon"), Area(<<"3">>, "Daejeon"),
     Area(<<"4">>, "Daegu"), Area(<<"5">>, "Gwangju"), Area(<<"6">>, "Busan"),
     Area(<<"7">>, "Ulsan"), Area(<<"8">>, "Sejong-teukbyeoljachisi"),
     Area(<<"3", "1">>, "Gyeonggi-do"), Area(<<"3", "2">>, "Gangwon-teukbyeoljachido"),
     Area(<<"3", "3">>, "Chungcheongbuk-do"), Area(<<"3", "4">>, "Chungcheongnam-do"),
     Area(<<"3", "5">>, "Jeollabuk-do"), Area(<<"3", "6">>, "Jeollanam-do"),
     Area(<<"3", "7">>, "Gyeongsangbuk-do"), Area(<<"3", "8">>, "Gyeongsangnam-do"),
     Area(<<"3", "9">>, "Jeju-teukbyeoljachido") >>

\* DEFAULT_AREA_CODES of the first version: the short names.
DEFAULT_AREA_CODES_short ==
  << Area(<<"1">>, "Seoul"), Area(<<"2">>, "Incheon"), Area(<<"3">>, "Daejeon"),
     Area(<<"4">>, "Daegu"), Area(<<"5">>, "Gwangju"), Area(<<"6">>, "Busan"),
     Area(<<"7">>, "Ulsan"), Area(<<"8">>, "Sejong"),
     Area(<<"3", "1">>, "Gyeonggi"), Area(<<"3", "2">>, "Gangwon"),
     Area(<<"3", "3">>, "Chungbuk"), Area(<<"3", "4">>, "Chungnam"),
     Area(<<"3", "5">>, "Jeonbuk"), Area(<<"3", "6">>, "Jeonnam"),
     Area(<<"3", "7">>, "Gyeongbuk"), Area(<<"3", "8">>, "Gyeongnam"),
     Area(<<"3", "9">>, "Jeju") >>

\* DEFAULT_AREA_CODES: the second version lists the same names as
\* AREA_CODE_NAME_MAP.
DEFAULT_AREA_CODES(file) ==
  IF file = "part_020:60" THEN DEFAULT_AREA_CODES_short ELSE AREA_CODE_NAME_MAP

\* Where a call of a tour helper ends: headers() throws, fetch throws, the
\* response is not OK, response.json() throws, the result code is not
\* "0000", or the body is read.
FetchOutcomes ==
  {"headers_throw", "fetch_throw", "http_error", "json_throw", "error_code", "ok"}

\* Areas the area-code API answers with: two with the short name, one with
\* the official name, and one code the application does not list.
ApiAreas ==
  { Area(<<"1">>, "Seoul"), Area(<<"8">>, "Sejong"),
    Area(<<"3", "9">>, "Jeju-do"), Area(<<"9", "9">>, "Unlisted") }

\* data.response?.body?.items?.item: absent, one object, or an array.
Items(objects) ==
  {[kind |-> "absent", item |-> <<>>]}
    \cup {[kind |-> "object", item |-> <<a>>] : a \in objects}
    \cup {[kind |-> "array", item |-> <<>>]}
    \cup {[kind |-> "array", item |-> <<a>>] : a \in objects}
    \cup {[kind |-> "array", item |-> <<a, b>>] : a \in objects, b \in objects}

\* Array.isArray(items) ? items : items ? [items] : []
ItemList(items) == items.item

\* parseInt(code, 10) of a code made of digits.
parseInt_code(code) == DigitsValue(DigitPrefix(code), 0)

\* areaCodes.sort((a, b) => parseInt(a.code, 10) - parseInt(b.code, 10))
RECURSIVE areaCodes_sort_insert(_, _)
areaCodes_sort_insert(x, l) ==
  IF l = <<>> THEN <<x>>
  ELSE IF parseInt_code(x.code) < parseInt_code(Head(l).code) THEN <<x>> \o l
  ELSE <<Head(l)>> \o areaCodes_sort_insert(x, Tail(l))

RECURSIVE areaCodes_sort(_)
areaCodes_sort(l) ==
  IF l = <<>> THEN <<>>
  ELSE areaCodes_sort_insert(l[Len(l)], areaCodes_sort(SubSeq(l, 1, Len(l) - 1)))

\* apiAreaCodeMap.get(code) after areaCodes.forEach(area => map.set(area.code, area)):
\* the last area with that code, if any.
apiAreaCodeMap_get(areaCodes, code) ==
  LET at == {i \in 1..Len(areaCodes) : areaCodes[i].code = code}
  IN  IF at = {} THEN <<>>
      ELSE <<areaCodes[CHOOSE i \in at : \A j \in at : j <= i]>>

\* AREA_CODE_NAME_MAP[code] || name
officialName(code, name) ==
  LET at == {i \in 1..Len(AREA_CODE_NAME_MAP) : AREA_CODE_NAME_MAP[i].code = code}
  IN  IF at = {} THEN name ELSE AREA_CODE_NAME_MAP[CHOOSE i \in at : TRUE].name

\* DEFAULT_AREA_CODES.forEach(defaultArea => normalizedAreaCodes.push(...))
normalizedAreaCodes(areaCodes, file) ==
  [i \in 1..Len(DEFAULT_AREA_CODES(file)) |->
     LET defaultArea == DEFAULT_AREA_CODES(file)[i]
         apiArea == apiAreaCodeMap_get(areaCodes, defaultArea.code)
     IN  IF apiArea # <<>>
         THEN Area(apiArea[1].code, officialName(apiArea[1].code, apiArea[1].name))
         ELSE defaultArea]

\* The try block of fetchAreaCodes.
fetchAreaCodes_try(file, outcome, items) ==
  IF outcome \in {"headers_throw", "fetch_throw", "json_throw"} THEN Throw
  ELSE IF outcome = "http_error" THEN Return(DEFAULT_AREA_CODES(file))
  ELSE IF outcome = "error_code" THEN Return(DEFAULT_AREA_CODES(file))
  ELSE IF file = "part_020:60"
  THEN LET areaCodes == areaCodes_sort(ItemList(items))
       IN  Return(IF Len(areaCodes) > 0 THEN areaCodes ELSE DEFAULT_AREA_CODES(file))
  ELSE Return(areaCodes_sort(normalizedAreaCodes(ItemList(items), file)))

\* fetchAreaCodes without its fallbacks: failures give the list read so far.
fetchAreaCodes_no_fallback(file, outcome, items) ==
  IF outcome # "ok" THEN Return(<<>>)
  ELSE IF file = "part_020:60" THEN Return(areaCodes_sort(ItemList(items)))
  ELSE Return(areaCodes_sort(normalizedAreaCodes(ItemList(items), file)))

fetchAreaCodes(file, outcome, items) ==
  TryCatch(fetchAreaCodes_try(file, outcome, items), DEFAULT_AREA_CODES(file))

\* No item in the body.
NoItems == [kind |-> "absent", item |-> <<>>]

Call(helper, file, arg, outcome, items, result) ==
  [helper |-> helper, file |-> file, arg |-> arg, outcome |-> outcome,
   items |-> items, result |-> result]

\* No helper has been called.
FtIdle == ft = Call("none", "none", "", "none", NoItems, Return(<<>>))

\* Home: const areaCodes = await fetchAreaCodes()
Home_fetchAreaCodes ==
  /\ \E file \in TourApiClientFiles, outcome \in FetchOutcomes :
       \E items \in IF outcome = "ok" THEN Items(ApiAreas) ELSE {NoItems} :
         ft' = Call("fetchAreaCodes", file, "", outcome, items,
                    fetchAreaCodes(file, outcome, items))
  /\ UNCHANGED <<bmVars, pg, px, sr, lp, mp, st, bb, tb, bd, sh, su>>

\* null
null == [kind |-> "null"]

\* The places the detail endpoints answer with.
ApiTours == {[kind |-> "tour", contentid |-> c] : c \in Contents}

\* Array.isArray(items) ? items[0] || null : items || null
FirstItem(items) == IF items.item = <<>> THEN null ELSE items.item[1]

\* The try block of fetchTourDetail.
fetchTourDetail_try(outcome, items) ==
  IF outcome \in {"headers_throw", "fetch_throw", "json_throw"} THEN Throw
  ELSE IF outcome = "http_error" THEN Return(null)
  ELSE IF outcome = "error_code" THEN Return(null)
  ELSE Return(FirstItem(items))

\* fetchTourDetail with its catch clause.
fetchTourDetail_settled(outcome, items) ==
  TryCatch(fetchTourDetail_try(outcome, items), null)

\* The try block of fetchTourIntro.
fetchTourIntro_try(contentTypeId, outcome, items) ==
  IF contentTypeId = "" THEN Return(null)
  ELSE IF outcome \in {"headers_throw", "fetch_throw", "json_throw"} THEN Throw
  ELSE IF outcome = "http_error" THEN Return(null)
  ELSE IF outcome = "error_code" THEN Return(null)
  ELSE Return(FirstItem(items))

fetchTourIntro(contentTypeId, outcome, items) ==
  TryCatch(fetchTourIntro_try(contentTypeId, outcome, items), null)

\* The try block of fetchTourImages.
fetchTourImages_try(outcome, items) ==
  IF outcome \in {"headers_throw", "fetch_throw", "json_throw"} THEN Throw
  ELSE IF outcome = "http_error" THEN Return(<<>>)
  ELSE IF outcome = "error_code" THEN Return(<<>>)
  ELSE Return(ItemList(items))

fetchTourImages(outcome, items) ==
  TryCatch(fetchTourImages_try(outcome, items), <<>>)

\* Where a Supabase query ends: rows, an error object, or an exception.
QueryOutcomes == {"ok", "error", "throw"}

\* The try block of checkBookmark; data is the row found, if any.
checkBookmark_try(outcome, data) ==
  IF outcome = "throw" THEN Throw
  ELSE IF outcome = "error" THEN Return(FALSE)
  ELSE Return(data # <<>>)

checkBookmark_settled(outcome, data) ==
  TryCatch(checkBookmark_try(outcome, data), FALSE)

\* Bookmarks as stored: content_id and created_at (a time).
Bookmark(c, t) == [content_id |-> c, created_at |-> t]

\* Lists of bookmarks in any order of creation times.
BookmarkLists ==
  {<<>>} \cup {<<Bookmark(c, t)>> : c \in Contents, t \in {1, 2}}
    \cup {<<Bookmark("c1", t), Bookmark("c2", u)>> : t \in {1, 2}, u \in {1, 2}}

\* bookmarks.sort((a, b) => dateB - dateA)
RECURSIVE bookmarks_sort_insert(_, _)
bookmarks_sort_insert(x, l) ==
  IF l = <<>> THEN <<x>>
  ELSE IF Head(l).created_at - x.created_at > 0 THEN <<x>> \o l
  ELSE <<Head(l)>> \o bookmarks_sort_insert(x, Tail(l))

RECURSIVE bookmarks_sort(_)
bookmarks_sort(l) ==
  IF l = <<>> THEN <<>>
  ELSE bookmarks_sort_insert(l[Len(l)], bookmarks_sort(SubSeq(l, 1, Len(l) - 1)))

\* Where getBookmarks ends for a signed-in caller: getUserIdByClerkId
\* returned null, or the outcome of the bookmarks query.
BookmarksOutcomes == {"no_user"} \cup QueryOutcomes

\* The try block of getBookmarks; stored is what getLocalStorageBookmarks
\* returns, data the rows of the query.
getBookmarks_try(signedIn, outcome, stored, data) ==
  IF ~signedIn THEN Return(bookmarks_sort(stored))
  ELSE IF outcome = "no_user" THEN Return(bookmarks_sort(stored))
  ELSE IF outcome = "throw" THEN Throw
  ELSE IF outcome = "error" THEN Return(<<>>)
  ELSE Return(data)

getBookmarks(signedIn, outcome, stored, data) ==
  TryCatch(getBookmarks_try(signedIn, outcome, stored, data), <<>>)

\* PlaceDetailPage, BookmarksPage: await fetchTourDetail(contentId)
PlaceDetailPage_fetchTourDetail ==
  /\ \E outcome \in FetchOutcomes :
       \E items \in IF outcome = "ok" THEN Items(ApiTours) ELSE {NoItems} :
         ft' = Call("fetchTourDetail", "part_020:370", "", outcome, items,
                    fetchTourDetail_settled(outcome, items))
  /\ UNCHANGED <<bmVars, pg, px, sr, lp, mp, st, bb, tb, bd, sh, su>>

\* PlaceDetailPage: await fetchTourIntro(contentId, contentTypeId)
PlaceDetailPage_fetchTourIntro ==
  /\ \E contentTypeId \in {"", "12"} :
       \E outcome \in IF contentTypeId = "" THEN {"none"} ELSE FetchOutcomes :
         \E items \in IF outcome = "ok" THEN Items(ApiTours) ELSE {NoItems} :
           ft' = Call("fetchTourIntro", "part_020:456", contentTypeId, outcome, items,
                      fetchTourIntro(contentTypeId, outcome, items))
  /\ UNCHANGED <<bmVars, pg, px, sr, lp, mp, st, bb, tb, bd, sh, su>>

\* PlaceDetailPage: await fetchTourImages(contentId)
PlaceDetailPage_fetchTourImages ==
  /\ \E outcome \in FetchOutcomes :
       \E items \in IF outcome = "ok" THEN Items(ApiTours) ELSE {NoItems} :
         ft' = Call("fetchTourImages", "part_020:550", "", outcome, items,
                    fetchTourImages(outcome, items))
  /\ UNCHANGED <<bmVars, pg, px, sr, lp, mp, st, bb, tb, bd, sh, su>>

\* BookmarksPage: await getBookmarks(supabase, userId)
BookmarksPage_getBookmarks ==
  /\ \E signedIn \in BOOLEAN :
       \E outcome \in IF signedIn THEN BookmarksOutcomes ELSE {"none"} :
         \E stored \in IF outcome \in {"none", "no_user"} THEN BookmarkLists ELSE {<<>>},
            data \in IF outcome = "ok" THEN BookmarkLists ELSE {<<>>} :
           ft' = Call("getBookmarks", "part_020:949",
                      IF signedIn THEN "user" ELSE "", outcome,
                      [kind |-> "array", item |-> stored \o data],
                      getBookmarks(signedIn, outcome, stored, data))
  /\ UNCHANGED <<bmVars, pg, px, sr, lp, mp, st, bb, tb, bd, sh, su>>

\* useBookmark: await checkBookmark(supabase, userId, contentId)
useBookmark_checkBookmark ==
  /\ \E outcome \in QueryOutcomes :
       \E data \in IF outcome = "ok" THEN {<<>>, <<"id">>} ELSE {<<>>} :
         ft' = Call("checkBookmark", "part_020:824", "", outcome,
                    [kind |-> "object", item |-> data],
                    checkBookmark_settled(outcome, data))
  /\ UNCHANGED <<bmVars, pg, px, sr, lp, mp, st, bb, tb, bd, sh, su>>

FtNext ==
  \/ Home_fetchAreaCodes
  \/ PlaceDetailPage_fetchTourDetail
  \/ PlaceDetailPage_fetchTourIntro
  \/ PlaceDetailPage_fetchTourImages
  \/ BookmarksPage_getBookmarks
  \/ useBookmark_checkBookmark

\* C14: fetchAreaCodes never returns an empty list, and whenever the call
\* failed (not-OK response, error result code, no items, exception) it
\* returns the default list of 17 regions.
C14_AreaCodesNeverEmpty ==
  ft.helper = "fetchAreaCodes" =>
    /\ ft.result.kind = "return"
    /\ ft.result.value # <<>>
    /\ (ft.outcome # "ok" \/ ft.items.item = <<>>) =>
         /\ ft.result.value = DEFAULT_AREA_CODES(ft.file)
         /\ Len(ft.result.value) = 17

C14_Witness ==
  /\ ft.helper = "fetchAreaCodes"
  /\ ft.file = "part_020:246"
  /\ ft.outcome = "ok"
  /\ ft.items.kind = "array"
  /\ ft.items.item = <<>>
  /\ ft.result = Return(DEFAULT_AREA_CODES(ft.file))

\* The value a helper falls back to.
Fallback(call) ==
  CASE call.helper = "fetchAreaCodes" -> DEFAULT_AREA_CODES(call.file)
    [] call.helper \in {"fetchTourDetail", "fetchTourIntro"} -> null
    [] call.helper = "checkBookmark" -> FALSE
    [] OTHER -> <<>>

\* The failure modes of a call: a response that is not OK, an error result
\* code or error object, an exception.
Failed(call) ==
  call.outcome \in {"headers_throw", "fetch_throw", "http_error", "json_throw",
                    "error_code", "error", "throw"}

Init == BmInit /\ PgIdle /\ PxIdle /\ SrIdle /\ LpIdle /\ MpIdle /\ FtIdle /\ StIdle /\ BbIdle /\ TbIdle /\ BdIdle /\ ShIdle /\ SuIdle

Next == BmNext

Spec == Init /\ [][Next]_vars

PageInit == BmInit /\ PgInit /\ PxIdle /\ SrIdle /\ LpIdle /\ MpIdle /\ FtIdle /\ StIdle /\ BbIdle /\ TbIdle /\ BdIdle /\ ShIdle /\ SuIdle

PageNext == PgNext

PageSpec == PageInit /\ [][PageNext]_vars

ProxyInit == BmInit /\ PgIdle /\ PxInit /\ SrIdle /\ LpIdle /\ MpIdle /\ FtIdle /\ StIdle /\ BbIdle /\ TbIdle /\ BdIdle /\ ShIdle /\ SuIdle

ProxyNext == PxNext

ProxySpec == ProxyInit /\ [][ProxyNext]_vars

SearchInit == BmInit /\ PgIdle /\ PxIdle /\ SrIdle /\ LpIdle /\ MpIdle /\ FtIdle /\ StIdle /\ BbIdle /\ TbIdle /\ BdIdle /\ ShIdle /\ SuIdle

SearchNext == SrNext

SearchSpec == SearchInit /\ [][SearchNext]_vars

\* The browser fires an armed timer: the timeout step is weakly fair.  A
\* navigation may never be answered, so nothing else is assumed fair.
SearchFairSpec == SearchInit /\ [][SearchNext]_vars /\ WF_vars(setTimeout_fire)

ListInit == BmInit /\ PgIdle /\ PxIdle /\ SrIdle /\ MpIdle /\ FtIdle /\ StIdle /\ BbIdle /\ TbIdle /\ BdIdle /\ ShIdle /\ SuIdle /\ LpIdle

ListNext == LpNext

ListSpec == ListInit /\ [][ListNext]_vars
\* A browser with anonymous bookmarks signs in; nothing but the sync
\* writes the user's bookmarks.
SyncNext ==
  \/ SignIn
  \/ \E h \in Hooks : checkBookmarkStatus(h)
  \/ \E h \in Hooks : auth = "out" /\ handleToggle(h)
  \/ \E h \in Hooks : auth = "out" /\ MyComponent_onClick(h)
  \/ \E h \in Hooks : syncLocalStorage_user(h)
  \/ \E h \in Hooks : syncLocalStorageToDB_check(h)
  \/ \E h \in Hooks : syncLocalStorageToDB_add(h)
  \/ \E h \in Hooks : syncLocalStorage_result(h)
  \/ \E h \in Hooks, c \in Contents : DetailPage_open(h, c)

SyncSpec == Init /\ [][SyncNext]_vars
ButtonsInit == BmInit /\ PgIdle /\ PxIdle /\ SrIdle /\ LpIdle /\ MpIdle /\ FtIdle /\ StIdle /\ TbIdle /\ BdIdle /\ ShIdle /\ SuIdle /\ BbIdle

ButtonsNext == BbNext

ButtonsSpec == ButtonsInit /\ [][ButtonsNext]_vars
ToggleInit == BmInit /\ PgIdle /\ PxIdle /\ SrIdle /\ LpIdle /\ MpIdle /\ FtIdle /\ StIdle /\ BbIdle /\ BdIdle /\ ShIdle /\ SuIdle /\ TbIdle

ToggleNext == TbNext

ToggleSpec == ToggleInit /\ [][ToggleNext]_vars

\* Every request of the hook is answered.
ToggleFairSpec ==
  ToggleInit /\ [][ToggleNext]_vars
    /\ WF_vars(useBookmark_checkBookmarkStatus)
    /\ \A i \in 1..MaxInFlight :
         /\ WF_vars(useBookmark_toggleBookmark_check(i))
         /\ WF_vars(useBookmark_toggleBookmark_write(i))
         /\ WF_vars(useBookmark_toggleBookmark_fin(i))
BulkDeleteInit == BmInit /\ PgIdle /\ PxIdle /\ SrIdle /\ LpIdle /\ MpIdle /\ FtIdle /\ StIdle /\ BbIdle /\ TbIdle /\ ShIdle /\ SuIdle /\ BdIdle

BulkDeleteNext == BdNext

BulkDeleteSpec == BulkDeleteInit /\ [][BulkDeleteNext]_vars
HeaderInit == BmInit /\ PgIdle /\ PxIdle /\ SrIdle /\ LpIdle /\ MpIdle /\ FtIdle /\ StIdle /\ BbIdle /\ TbIdle /\ BdIdle /\ SuIdle /\ ShIdle

HeaderNext == ShNext

HeaderSpec == HeaderInit /\ [][HeaderNext]_vars
SyncUserInit == BmInit /\ PgIdle /\ PxIdle /\ SrIdle /\ LpIdle /\ MpIdle /\ FtIdle /\ StIdle /\ BbIdle /\ TbIdle /\ BdIdle /\ ShIdle /\ SuIdle

SyncUserNext == SuNext

SyncUserSpec == SyncUserInit /\ [][SyncUserNext]_vars
SortInit == BmInit /\ PgIdle /\ PxIdle /\ SrIdle /\ LpIdle /\ MpIdle /\ FtIdle /\ BbIdle /\ TbIdle /\ BdIdle /\ ShIdle /\ SuIdle /\ StIdle

SortNext == StNext

SortSpec == SortInit /\ [][SortNext]_vars

MapInit == BmInit /\ PgIdle /\ PxIdle /\ SrIdle /\ LpIdle /\ FtIdle /\ StIdle /\ BbIdle /\ TbIdle /\ BdIdle /\ ShIdle /\ SuIdle /\ MpIdle

MapNext == MpNext

MapSpec == MapInit /\ [][MapNext]_vars

\* React runs every scheduled effect and render.
MapFairSpec ==
  MapInit /\ [][MapNext]_vars
    /\ WF_vars(DetailMap_coordinates_effect) /\ WF_vars(DetailMap_init_effect)
    /\ WF_vars(DetailMap)
FetchInit == BmInit /\ PgIdle /\ PxIdle /\ SrIdle /\ LpIdle /\ MpIdle /\ StIdle /\ BbIdle /\ TbIdle /\ BdIdle /\ ShIdle /\ SuIdle /\ FtIdle

FetchNext == FtNext

FetchSpec == FetchInit /\ [][FetchNext]_vars

====
